---- MODULE Spec2Model ----
(***************************************************************************)
(* plex-clean: a webhook relay that receives playback-stop notifications   *)
(* from Plex or Jellyfin and writes a JSON descriptor file for every item  *)
(* that was watched to completion.                                         *)
(*                                                                         *)
(* Text (paths, titles, file names, response bodies) is modelled as        *)
(* sequences of characters or lexical tokens; a character is a string of   *)
(* length one.                                                             *)
(***************************************************************************)
EXTENDS Integers, Sequences, FiniteSets, TLC

VARIABLES
    kPath,      \* key extractor: the path handed to extractKeyFromPath
    kKey,       \* key extractor: the returned key (a character sequence)
    kDone,      \* key extractor: whether extractKeyFromPath has returned
    fDesc,      \* decoder: what the upstream put into its response body
    fBody,      \* decoder: the response body fetchMetadata has read
    fResult,    \* decoder: what fetchMetadata returns for that body
    fDone,      \* decoder: whether fetchMetadata has returned
    files,      \* the file system: output path -> content of the file there
    pc,         \* per request slot: where its handler stands
    req,        \* per request slot: the inbound request
    outbound,   \* per request slot: rating_key of each history request issued
    upstream,   \* per request slot: what came back from the history API
    fetchErr,   \* per request slot: the error fetchMetadata returned
    media,      \* per request slot: mediaData, the records fetchMetadata returned
    recIdx,        \* per request slot: position of the record loop in mediaData
    io,         \* per request slot: per record, how its file operations went
    written,    \* per request slot: the file writes the handler made, in order
    resp,       \* per request slot: the response written to the webhook sender
    trace,      \* what the relay did, in order: arrivals, file writes, responses
    debug,      \* per request slot: config.Debug of the process serving it
    logs,       \* per request slot: the lines logged under config.Debug
    cEnv,       \* configuration: the environment loadConfig reads
    cConfig,    \* configuration: the Config loadConfig returns
    cDone       \* configuration: whether loadConfig has returned

keyVars == <<kPath, kKey, kDone>>

fetchVars == <<fDesc, fBody, fResult, fDone>>

configVars == <<cEnv, cConfig, cDone>>

relayVars ==
    <<files, pc, req, outbound, upstream, fetchErr, media, recIdx, io, written, resp,
      trace, debug, logs>>

vars ==
    <<kPath, kKey, kDone, fDesc, fBody, fResult, fDone,
      files, pc, req, outbound, upstream, fetchErr, media, recIdx, io, written, resp,
      trace, debug, logs, cEnv, cConfig, cDone>>

(***************************************************************************)
(* Bounds of the model.                                                    *)
(***************************************************************************)
\* Longest path, in path tokens, handed to the key extractor.
MaxPathToks == 3
\* Most fields of a record in a response body handed to the decoder.
MaxFields == 2
\* Most records in a history response the relay handles.
MaxRecs == 2

(***************************************************************************)
(* Character sequences.                                                    *)
(***************************************************************************)
Digits == {"0", "1", "2", "3", "4", "5", "6", "7", "8", "9"}

DigitVal(c) ==
    CASE c = "0" -> 0 [] c = "1" -> 1 [] c = "2" -> 2 [] c = "3" -> 3
      [] c = "4" -> 4 [] c = "5" -> 5 [] c = "6" -> 6 [] c = "7" -> 7
      [] c = "8" -> 8 [] c = "9" -> 9

SetMin(S) == CHOOSE x \in S : \A y \in S : x <= y

SetMax(S) == CHOOSE x \in S : \A y \in S : y <= x

\* s[from:] with Go's 0-based offset.
SliceFrom(s, from) == SubSeq(s, from + 1, Len(s))

\* strings.Index: 0-based offset of the first occurrence of sub in s, or -1.
StringsIndex(s, sub) ==
    LET hits == {i \in 0..(Len(s) - Len(sub)) : SubSeq(s, i + 1, i + Len(sub)) = sub}
    IN  IF hits = {} THEN -1 ELSE SetMin(hits)

\* strings.LastIndex: 0-based offset of the last occurrence of sub in s, or -1.
StringsLastIndex(s, sub) ==
    LET hits == {i \in 0..(Len(s) - Len(sub)) : SubSeq(s, i + 1, i + Len(sub)) = sub}
    IN  IF hits = {} THEN -1 ELSE SetMax(hits)

IsDigitRun(s) == Len(s) > 0 /\ \A i \in 1..Len(s) : s[i] \in Digits

(***************************************************************************)
(* strconv.Atoi, as extractKeyFromPath uses it: only the error is read.    *)
(* An optional sign, then at least one decimal digit and nothing else; the *)
(* magnitude must fit the 64-bit int of the linux/amd64 build: at most     *)
(* 2^63 - 1, or 2^63 after a minus sign.  Magnitudes are compared digit by *)
(* digit, since they exceed the model checker's integers.                  *)
(***************************************************************************)
\* The decimal digits of 2^63.
Int64Cutoff ==
    <<"9","2","2","3","3","7","2","0","3","6","8","5","4","7","7","5","8","0","8">>

RECURSIVE StripZeros(_)
StripZeros(s) ==
    IF Len(s) > 1 /\ Head(s) = "0" THEN StripZeros(Tail(s)) ELSE s

\* a < b for digit runs of the same length.
RECURSIVE DigitsLess(_, _)
DigitsLess(a, b) ==
    IF a = <<>> THEN FALSE
    ELSE IF DigitVal(Head(a)) # DigitVal(Head(b))
         THEN DigitVal(Head(a)) < DigitVal(Head(b))
         ELSE DigitsLess(Tail(a), Tail(b))

\* The magnitude of digit run a is below that of digit run b.
MagnitudeLess(a, b) ==
    LET x == StripZeros(a)
        y == StripZeros(b)
    IN  IF Len(x) # Len(y) THEN Len(x) < Len(y) ELSE DigitsLess(x, y)

\* TRUE iff strconv.Atoi(s) returns a nil error.
AtoiOk(s) ==
    LET signed == Len(s) > 0 /\ Head(s) \in {"+", "-"}
        neg    == Len(s) > 0 /\ Head(s) = "-"
        digits == IF signed THEN Tail(s) ELSE s
    IN  /\ IsDigitRun(digits)
        /\ \/ MagnitudeLess(digits, Int64Cutoff)
           \/ neg /\ StripZeros(digits) = Int64Cutoff

(***************************************************************************)
(* extractKeyFromPath                                                      *)
(***************************************************************************)
\* const prefix = "/library/metadata/"
Marker ==
    <<"/","l","i","b","r","a","r","y","/","m","e","t","a","d","a","t","a","/">>

extractKeyFromPath(path) ==
    LET idx            == StringsIndex(path, Marker)
        afterMarker    == SliceFrom(path, idx + Len(Marker))
        lastSlashIndex == StringsLastIndex(path, <<"/">>)
        afterSlash     == SliceFrom(path, lastSlashIndex + 1)
    IN  IF idx # -1 /\ AtoiOk(afterMarker) THEN afterMarker
        ELSE IF lastSlashIndex # -1 /\ AtoiOk(afterSlash) THEN afterSlash
        ELSE <<>>

(***************************************************************************)
(* Paths of the model: sequences of path tokens.  "M" stands for the       *)
(* marker, "B" for the digit run 9223372036854775808 (2^63), every other   *)
(* token for itself.                                                       *)
(***************************************************************************)
PathToks == {"M", "/", "7", "0", "a", "-", "+", "B"}

ExpandTok(t) ==
    CASE t = "M" -> Marker
      [] t = "B" -> Int64Cutoff
      [] OTHER   -> <<t>>

RECURSIVE PathOf(_)
PathOf(toks) == IF toks = <<>> THEN <<>> ELSE ExpandTok(Head(toks)) \o PathOf(Tail(toks))

SeqsUpTo(S, n) == UNION {[1..k -> S] : k \in 0..n}

PathInputs == SeqsUpTo(PathToks, MaxPathToks)

(***************************************************************************)
(* JSON text of the upstream response, as a sequence of lexical tokens.    *)
(* A string literal whose content is a JSON number carries the number      *)
(* (num = TRUE); a number ip.fr is held as its integer part ip and its     *)
(* fraction fr in thousandths, dot telling whether the text has a          *)
(* fraction.  "ws" is a non-empty run of JSON whitespace.  "env[" stands   *)
(* for the opening  {"response":{"data":{"data":[  of the envelope, "]env" *)
(* for its closing  ]}}}  and "{}" for an envelope without a data list.    *)
(***************************************************************************)
Tok(t, s, num, ip, fr, dot) ==
    [t |-> t, s |-> s, num |-> num, ip |-> ip, fr |-> fr, dot |-> dot]

Str(s) == Tok("str", s, FALSE, 0, 0, FALSE)

StrNum(ip, fr, dot) == Tok("str", "", TRUE, ip, fr, dot)

Num(ip, fr, dot) == Tok("num", "", TRUE, ip, fr, dot)

Null == Tok("null", "", FALSE, 0, 0, FALSE)

Ws == Tok("ws", "", FALSE, 0, 0, FALSE)

P(c) == Tok(c, "", FALSE, 0, 0, FALSE)

(***************************************************************************)
(* The four textual rewrites of fetchMetadata.  Each regular expression    *)
(*     "<name>"\s*:\s*""                                                   *)
(* matches a string literal <name>, optional whitespace, a colon, optional *)
(* whitespace and an empty string literal; ReplaceAllString rewrites every *)
(* leftmost non-overlapping match.                                         *)
(***************************************************************************)
RECURSIVE SkipWs(_, _)
SkipWs(toks, i) ==
    IF i <= Len(toks) /\ toks[i].t = "ws" THEN SkipWs(toks, i + 1) ELSE i

\* The index of the last token of a match that starts at token i, or 0.
RegexMatchEnd(toks, i, name) ==
    IF toks[i] # Str(name) THEN 0
    ELSE LET c == SkipWs(toks, i + 1)
         IN  IF c > Len(toks) \/ toks[c].t # ":" THEN 0
             ELSE LET v == SkipWs(toks, c + 1)
                  IN  IF v <= Len(toks) /\ toks[v] = Str("") THEN v ELSE 0

RECURSIVE ReplaceAllFrom(_, _, _, _)
ReplaceAllFrom(toks, i, name, repl) ==
    IF i > Len(toks) THEN <<>>
    ELSE LET e == RegexMatchEnd(toks, i, name)
         IN  IF e # 0
             THEN <<Str(name), P(":"), repl>> \o ReplaceAllFrom(toks, e + 1, name, repl)
             ELSE <<toks[i]>> \o ReplaceAllFrom(toks, i + 1, name, repl)

ReplaceAllString(toks, name, repl) == ReplaceAllFrom(toks, 1, name, repl)

\* A normalizer that forgets the percent_complete rewrite.
normalizeBodyThreeFields(bodyStr) ==
    LET b1 == ReplaceAllString(bodyStr, "parent_media_index", StrNum(0, 0, FALSE))
        b2 == ReplaceAllString(b1, "media_index", StrNum(0, 0, FALSE))
    IN  ReplaceAllString(b2, "watched_status", Num(0, 0, FALSE))

normalizeBody(bodyStr) ==
    LET b1 == ReplaceAllString(bodyStr, "parent_media_index", StrNum(0, 0, FALSE))
        b2 == ReplaceAllString(b1, "media_index", StrNum(0, 0, FALSE))
        b3 == ReplaceAllString(b2, "watched_status", Num(0, 0, FALSE))
    IN  ReplaceAllString(b3, "percent_complete", Num(0, 0, FALSE))

(***************************************************************************)
(* json.Unmarshal into TautulliResponse.                                   *)
(*                                                                         *)
(* A json.Number holds the text of a number, or nothing (set = FALSE, the  *)
(* Go zero value "").  WatchedStatus is a float64, held in thousandths.    *)
(***************************************************************************)
NoNumber == [set |-> FALSE, ip |-> 0, fr |-> 0, dot |-> FALSE]

NumberOf(tok) == [set |-> TRUE, ip |-> tok.ip, fr |-> tok.fr, dot |-> tok.dot]

\* The zero value of MediaData.
ZeroMediaData ==
    [FullTitle        |-> "",
     ParentMediaIndex |-> NoNumber,
     MediaIndex       |-> NoNumber,
     WatchedStatus    |-> 0,
     PercentComplete  |-> 0]

\* Whether JSON value v can be stored into the field named key; keys that
\* name no field of MediaData are skipped, and so is null.
FieldAccepts(key, v) ==
    CASE v.t = "null" -> TRUE
      [] key = "full_title" -> v.t = "str"
      [] key \in {"parent_media_index", "media_index"} -> v.num
      [] key = "watched_status" -> v.t = "num"
      [] key = "percent_complete" -> v.t = "num" /\ ~v.dot
      [] OTHER -> TRUE

\* The text of a JSON string token as a Go string.
StringOf(v) == v.s

StoreField(rec, key, v) ==
    CASE v.t = "null" -> rec
      [] key = "full_title" -> [rec EXCEPT !.FullTitle = StringOf(v)]
      [] key = "parent_media_index" -> [rec EXCEPT !.ParentMediaIndex = NumberOf(v)]
      [] key = "media_index" -> [rec EXCEPT !.MediaIndex = NumberOf(v)]
      [] key = "watched_status" -> [rec EXCEPT !.WatchedStatus = v.ip * 1000 + v.fr]
      [] key = "percent_complete" -> [rec EXCEPT !.PercentComplete = v.ip]
      [] OTHER -> rec

\* The members of an object, from the key at token i to the closing brace.
\* syn: the text is not JSON; bad: a value does not fit its field.
RECURSIVE ParseMembers(_, _, _, _)
ParseMembers(toks, i, rec, bad) ==
    IF \/ i + 3 > Len(toks)
       \/ toks[i].t # "str"
       \/ toks[i + 1].t # ":"
       \/ toks[i + 2].t \notin {"str", "num", "null"}
    THEN [syn |-> TRUE, next |-> i, rec |-> rec, bad |-> bad]
    ELSE LET key  == toks[i].s
             v    == toks[i + 2]
             ok   == FieldAccepts(key, v)
             rec2 == IF ok THEN StoreField(rec, key, v) ELSE rec
             bad2 == bad \/ ~ok
         IN  IF toks[i + 3].t = "}"
             THEN [syn |-> FALSE, next |-> i + 4, rec |-> rec2, bad |-> bad2]
             ELSE IF toks[i + 3].t = ","
             THEN ParseMembers(toks, i + 4, rec2, bad2)
             ELSE [syn |-> TRUE, next |-> i, rec |-> rec2, bad |-> bad2]

\* An object that starts at token i.
ParseObject(toks, i) ==
    IF i + 1 > Len(toks) \/ toks[i].t # "{"
    THEN [syn |-> TRUE, next |-> i, rec |-> ZeroMediaData, bad |-> FALSE]
    ELSE IF toks[i + 1].t = "}"
    THEN [syn |-> FALSE, next |-> i + 2, rec |-> ZeroMediaData, bad |-> FALSE]
    ELSE ParseMembers(toks, i + 1, ZeroMediaData, FALSE)

\* The elements of the data array, from the object at token i to "]env".
RECURSIVE ParseElements(_, _, _, _)
ParseElements(toks, i, recs, bad) ==
    LET o == ParseObject(toks, i)
    IN  IF o.syn \/ o.next > Len(toks)
        THEN [err |-> TRUE, recs |-> <<>>]
        ELSE IF toks[o.next].t = ","
        THEN ParseElements(toks, o.next + 1, Append(recs, o.rec), bad \/ o.bad)
        ELSE IF toks[o.next].t = "]env" /\ o.next = Len(toks)
        THEN [err |-> bad \/ o.bad, recs |-> IF bad \/ o.bad THEN <<>> ELSE Append(recs, o.rec)]
        ELSE [err |-> TRUE, recs |-> <<>>]

\* Whitespace between tokens means nothing to the decoder.
DropWs(toks) == SelectSeq(toks, LAMBDA x : x.t # "ws")

\* json.Unmarshal and the nil check that follows it: err, or the records.
jsonUnmarshal(bodyStr) ==
    LET toks == DropWs(bodyStr)
    IN  IF toks = <<P("{}")>> THEN [err |-> FALSE, recs |-> <<>>]
        ELSE IF Len(toks) < 2 \/ toks[1].t # "env[" THEN [err |-> TRUE, recs |-> <<>>]
        ELSE IF toks[2].t = "]env"
        THEN [err |-> Len(toks) # 2, recs |-> <<>>]
        ELSE ParseElements(toks, 2, <<>>, FALSE)

\* fetchMetadata from the body it has read to its return value.
decodeBody(body) == jsonUnmarshal(normalizeBody(body))

(***************************************************************************)
(* Response bodies of the model.  A body is described by its envelope      *)
(* ("list": complete, "none": no data list, "truncated": the closing of    *)
(* the envelope is missing), the whitespace runs before and after every    *)
(* colon, and its records, each a sequence of fields (key k, value v) in   *)
(* the order the upstream wrote them.  Render is the text of the body.     *)
(***************************************************************************)
FieldNames ==
    {"full_title", "parent_media_index", "media_index", "watched_status",
     "percent_complete"}

NumericNames == FieldNames \ {"full_title"}

RECURSIVE WsRun(_)
WsRun(n) == IF n = 0 THEN <<>> ELSE <<Ws>> \o WsRun(n - 1)

RenderField(f, w1, w2) == <<Str(f.k)>> \o WsRun(w1) \o <<P(":")>> \o WsRun(w2) \o <<f.v>>

RECURSIVE RenderFields(_, _, _)
RenderFields(fs, w1, w2) ==
    IF fs = <<>> THEN <<>>
    ELSE RenderField(Head(fs), w1, w2)
         \o (IF Len(fs) > 1 THEN <<P(","), Ws>> ELSE <<>>)
         \o RenderFields(Tail(fs), w1, w2)

RECURSIVE RenderRecs(_, _, _)
RenderRecs(rs, w1, w2) ==
    IF rs = <<>> THEN <<>>
    ELSE <<P("{")>> \o RenderFields(Head(rs), w1, w2) \o <<P("}")>>
         \o (IF Len(rs) > 1 THEN <<P(",")>> ELSE <<>>)
         \o RenderRecs(Tail(rs), w1, w2)

Render(d) ==
    IF d.env = "none" THEN <<P("{}")>>
    ELSE <<P("env[")>> \o RenderRecs(d.recs, d.w1, d.w2)
         \o (IF d.env = "truncated" THEN <<>> ELSE <<P("]env"), Ws>>)

Desc(env, w1, w2, recs) == [env |-> env, w1 |-> w1, w2 |-> w2, recs |-> recs]

\* The whitespace runs (before, after) the colon.
WsChoices == {<<0, 0>>, <<1, 0>>, <<0, 1>>, <<2, 1>>}

FieldValues ==
    {Str(""), Str("Show"), Null, Num(1, 0, FALSE), Num(1, 500, TRUE), StrNum(3, 0, FALSE)}

\* A string whose content is a number is given to the numeric fields only.
FieldChoices ==
    {f \in [k : FieldNames, v : FieldValues] :
        /\ f.k = "full_title" => ~(f.v.t = "str" /\ f.v.num)
        /\ f.k # "full_title" => f.v # Str("Show")}

FetchInputs ==
    {Desc(env, w[1], w[2], <<fs>>) :
        env \in {"list", "truncated"}, w \in WsChoices,
        fs \in SeqsUpTo(FieldChoices, MaxFields)}
    \cup {Desc("none", 0, 0, <<>>), Desc("list", 0, 0, <<>>)}

(***************************************************************************)
(* The relay: request slots, the file system and the Plex handler.         *)
(*                                                                         *)
(* net/http runs every request in a goroutine of its own; a slot is one    *)
(* such request, from its arrival to its response.                         *)
(***************************************************************************)
Slots == {1, 2}

\* config.OutputDir (OUTPUT_DIR, default "/output").
OutputDir == "/output"

\* json.Number.Int64: strconv.ParseInt of the number's text.
Int64Ok(n) == n.set /\ ~n.dot

Int64Val(n) == n.ip

\* A file name with the season and episode swapped.
EpisodeFilenameSwapped(title, season, episode) ==
    <<title, " - S", ToString(episode), "E", ToString(season), ".json">>

\* fmt.Sprintf("%s - S%dE%d.json", ...): the pieces of the file name.
EpisodeFilename(title, season, episode) ==
    <<title, " - S", ToString(season), "E", ToString(episode), ".json">>

\* strings.Split(s, "/"), for the strings of the model: no other string
\* of the model holds a separator.
Split(s) ==
    CASE s = "/output" -> <<"", "output">>
      [] s = "../Evil" -> <<"..", "Evil">>
      [] s = "sub/Evil" -> <<"sub", "Evil">>
      [] OTHER -> <<s>>

\* filepath.Clean, on the segments of an absolute directory: empty and "."
\* segments go, ".." takes the segment before it, and stays at the root.
RECURSIVE Clean(_)
Clean(segs) ==
    IF segs = <<>> THEN <<>>
    ELSE LET front == Clean(SubSeq(segs, 1, Len(segs) - 1))
             last  == segs[Len(segs)]
         IN  IF last \in {"", "."} THEN front
             ELSE IF last = ".." THEN SubSeq(front, 1, Len(front) - 1)
             ELSE Append(front, last)

\* The absolute directory of these segments, as text ("" is the root).
RECURSIVE Rooted(_)
Rooted(segs) ==
    IF segs = <<>> THEN ""
    ELSE Rooted(SubSeq(segs, 1, Len(segs) - 1)) \o "/" \o segs[Len(segs)]

\* filepath.Join(config.OutputDir, filename): the cleaned path, as the
\* directory the file lies in, a separator, and the pieces of its name.
\* The title, the first piece of filename, may hold separators; the last
\* segment, with the rest of filename behind it, is never empty or dots.
filepathJoin(dir, filename) ==
    LET parts == Split(filename[1])
        dirs  == Clean(Split(dir) \o SubSeq(parts, 1, Len(parts) - 1))
    IN  <<Rooted(dirs), "/", parts[Len(parts)]>> \o Tail(filename)

\* The JSON text of a json.Number: the empty Number is written as 0.
EncodeNumber(n) ==
    IF n.set THEN [ip |-> n.ip, fr |-> n.fr, dot |-> n.dot]
    ELSE [ip |-> 0, fr |-> 0, dot |-> FALSE]

\* A descriptor that reports every item as played in full.
MarshalIndentFullPercent(data) ==
    [full_title         |-> data.FullTitle,
     parent_media_index |-> EncodeNumber(data.ParentMediaIndex),
     media_index        |-> EncodeNumber(data.MediaIndex),
     watched_status     |-> data.WatchedStatus,
     percent_complete   |-> 100]

\* json.MarshalIndent(data, "", "  "): the descriptor, field by field.
MarshalIndent(data) ==
    [full_title         |-> data.FullTitle,
     parent_media_index |-> EncodeNumber(data.ParentMediaIndex),
     media_index        |-> EncodeNumber(data.MediaIndex),
     watched_status     |-> data.WatchedStatus,
     percent_complete   |-> data.PercentComplete]

\* A file: its text, and whether the text is whole (a write that fails
\* midway leaves a truncated file).
File(text, whole) == [text |-> text, whole |-> whole]

\* The file system after os.WriteFile(path, text) went the way of outcome.
WriteFile(fs, path, text, outcome) ==
    IF outcome = "openfail" THEN fs
    ELSE [q \in (DOMAIN fs) \cup {path} |->
            IF q = path THEN File(text, outcome = "ok") ELSE fs[q]]

\* A classifier that takes every record as watched.
IsWatchedAny(data) == data.WatchedStatus >= 0

\* data.WatchedStatus >= 1.0
IsWatched(data) == data.WatchedStatus >= 1000

\* One iteration of the record loop of handlePlexWebhook, for record data,
\* with MkdirAll and WriteFile going the way of mk and wr: what happened
\* ("convert": an index did not convert, "unwatched", "mkdir": MkdirAll
\* failed, or the outcome of WriteFile) and the write made, if any.
plexRecordStep(data, mk, wr) ==
    IF ~Int64Ok(data.ParentMediaIndex) \/ ~Int64Ok(data.MediaIndex)
    THEN [what |-> "convert", path |-> <<>>, text |-> MarshalIndent(data)]
    ELSE IF ~IsWatched(data)
    THEN [what |-> "unwatched", path |-> <<>>, text |-> MarshalIndent(data)]
    ELSE IF mk # "ok"
    THEN [what |-> "mkdir", path |-> <<>>, text |-> MarshalIndent(data)]
    ELSE [what |-> wr,
          path |-> filepathJoin(OutputDir,
                      EpisodeFilename(data.FullTitle,
                                      Int64Val(data.ParentMediaIndex),
                                      Int64Val(data.MediaIndex))),
          text |-> MarshalIndent(data)]

\* Whether a step of the record loop touched the file system.
Wrote(step) == step.what \in {"ok", "partial"}

(***************************************************************************)
(* Inbound Plex requests.  form: whether the body parses as a multipart    *)
(* form; payload: the form's payload field ("missing", "badjson" or an     *)
(* "event"); event and key: the event's name and Metadata.key (as path     *)
(* tokens).                                                                *)
(***************************************************************************)
\* JellyfinWebhookPayload, the fields the handler reads.
JellyfinPayload(event, ntype, itype, completed, title, series, season, episode) ==
    [Event              |-> event,
     NotificationType   |-> ntype,
     ItemType           |-> itype,
     PlayedToCompletion |-> completed,
     Title              |-> title,
     SeriesName         |-> series,
     SeasonNumber       |-> season,
     EpisodeNumber      |-> episode]

\* The zero value of JellyfinWebhookPayload.
ZeroJellyfinPayload == JellyfinPayload("", "", "", FALSE, "", "", 0, 0)

\* An inbound request: the handler that serves it (source), what that
\* handler reads of it, the segments of its URL path ("/plex" is <<"plex">>,
\* "/" is <<"">>) and its Content-Type header, cut into pieces.
Request(source, method, form, payload, event, key, jf) ==
    [source |-> source, method |-> method, form |-> form, payload |-> payload,
     event |-> event, key |-> key, jf |-> jf,
     path |-> IF source = "" THEN <<>> ELSE <<source>>,
     ctype |-> IF source = "plex" THEN <<"multipart/form-data", "; boundary=x">>
               ELSE IF source = "jellyfin" THEN <<"application/json">>
               ELSE <<>>]

PlexReq(method, form, payload, event, key) ==
    Request("plex", method, form, payload, event, key, ZeroJellyfinPayload)

NoReq == Request("", "", "", "", "", <<>>, ZeroJellyfinPayload)

HandlerPaths ==
    {<<>>, <<"a">>, <<"/", "a">>, <<"M", "7">>, <<"M", "-", "7">>, <<"M", "B">>}

PlexRequests ==
    {PlexReq("GET", "ok", "event", "media.stop", <<"M", "7">>),
     PlexReq("POST", "bad", "missing", "", <<>>),
     PlexReq("POST", "ok", "missing", "", <<>>),
     PlexReq("POST", "ok", "badjson", "", <<>>)}
    \cup {PlexReq("POST", "ok", "event", e, k) :
            e \in {"media.stop", "media.play"}, k \in HandlerPaths}

Response(status, body) == [status |-> status, body |-> body]

NoResponse == Response(0, "")

\* A handler that asks the history API even when no key was found.
plexBeforeFetchAlwaysAsks(r) ==
    IF r.method # "POST" THEN [resp |-> Response(405, "Method not allowed"), key |-> <<>>]
    ELSE IF r.form # "ok" THEN [resp |-> Response(400, "Error parsing form"), key |-> <<>>]
    ELSE IF r.payload = "missing" THEN [resp |-> Response(400, "No payload found"), key |-> <<>>]
    ELSE IF r.payload = "badjson" THEN [resp |-> Response(400, "Error parsing payload"), key |-> <<>>]
    ELSE IF r.event # "media.stop" THEN [resp |-> Response(200, "OK"), key |-> <<>>]
    ELSE IF PathOf(r.key) = <<>> THEN [resp |-> Response(200, "OK"), key |-> <<>>]
    ELSE IF extractKeyFromPath(PathOf(r.key)) = <<>>
    THEN [resp |-> NoResponse, key |-> <<"0">>]
    ELSE [resp |-> NoResponse, key |-> extractKeyFromPath(PathOf(r.key))]

\* handlePlexWebhook and fetchMetadata up to http.Get: the response, when
\* the handler is through without a history request, or else the rating_key
\* of the request it issues.
plexBeforeFetch(r) ==
    IF r.method # "POST" THEN [resp |-> Response(405, "Method not allowed"), key |-> <<>>]
    ELSE IF r.form # "ok" THEN [resp |-> Response(400, "Error parsing form"), key |-> <<>>]
    ELSE IF r.payload = "missing" THEN [resp |-> Response(400, "No payload found"), key |-> <<>>]
    ELSE IF r.payload = "badjson" THEN [resp |-> Response(400, "Error parsing payload"), key |-> <<>>]
    ELSE IF r.event # "media.stop" THEN [resp |-> Response(200, "OK"), key |-> <<>>]
    ELSE IF PathOf(r.key) = <<>> THEN [resp |-> Response(200, "OK"), key |-> <<>>]
    ELSE IF extractKeyFromPath(PathOf(r.key)) = <<>> THEN [resp |-> Response(200, "OK"), key |-> <<>>]
    ELSE [resp |-> NoResponse, key |-> extractKeyFromPath(PathOf(r.key))]

(***************************************************************************)
(* What the history API sends back.  transport: whether http.Get returned  *)
(* a response; status: its status code; read: whether the body could be    *)
(* read to its end; desc: the body.                                        *)
(***************************************************************************)
Reply(transport, status, read, desc) ==
    [transport |-> transport, status |-> status, read |-> read, desc |-> desc]

NoReply == Reply("", 0, "", Desc("none", 0, 0, <<>>))

\* http.StatusOK
StatusOK == 200

Err(kind, code) == [kind |-> kind, code |-> code]

NoErr == Err("none", 0)

\* A fetchMetadata that never looks at the status code.
fetchAfterGetNoStatusCheck(rp) ==
    IF rp.transport # "ok" THEN [err |-> Err("transport", 0), recs |-> <<>>]
    ELSE IF rp.read # "ok" THEN [err |-> Err("read", 0), recs |-> <<>>]
    ELSE LET d == decodeBody(Render(rp.desc))
         IN  IF d.err THEN [err |-> Err("decode", 0), recs |-> <<>>]
             ELSE [err |-> NoErr, recs |-> d.recs]

\* fetchMetadata from the return of http.Get to its own return.
fetchAfterGet(rp) ==
    IF rp.transport # "ok" THEN [err |-> Err("transport", 0), recs |-> <<>>]
    ELSE IF rp.status # StatusOK THEN [err |-> Err("status", rp.status), recs |-> <<>>]
    ELSE IF rp.read # "ok" THEN [err |-> Err("read", 0), recs |-> <<>>]
    ELSE LET d == decodeBody(Render(rp.desc))
         IN  IF d.err THEN [err |-> Err("decode", 0), recs |-> <<>>]
             ELSE [err |-> NoErr, recs |-> d.recs]

\* A handler that answers 200 OK whatever fetchMetadata returned.
plexAfterFetchSwallowsError(res) ==
    IF Len(res.recs) = 0 THEN Response(200, "OK")
    ELSE NoResponse

\* handlePlexWebhook after fetchMetadata: the response, when the handler is
\* through, or none when it goes on to the record loop.
plexAfterFetch(res) ==
    IF res.err # NoErr THEN Response(500, "Error fetching metadata")
    ELSE IF Len(res.recs) = 0 THEN Response(200, "OK")
    ELSE NoResponse

(***************************************************************************)
(* History records of the model: the record of the end-to-end scenario     *)
(* (Show, season 1, episode 2, watched_status 1.0, 98 percent) and every   *)
(* record that differs from it in one field.  "absent" marks a field the   *)
(* upstream left out.                                                      *)
(***************************************************************************)
Absent == P("absent")

RecFields(t, p, m, w, c) ==
    SelectSeq(<<[k |-> "full_title", v |-> t],
                [k |-> "parent_media_index", v |-> p],
                [k |-> "media_index", v |-> m],
                [k |-> "watched_status", v |-> w],
                [k |-> "percent_complete", v |-> c]>>,
              LAMBDA f : f.v # Absent)

BaseSeason == Num(1, 0, FALSE)

BaseEpisode == Num(2, 0, FALSE)

BaseWatched == Num(1, 0, TRUE)

BasePercent == Num(98, 0, FALSE)

SeasonValues == {BaseSeason, Null, Str("")}

EpisodeValues == {BaseEpisode, Absent, Num(1, 500, TRUE)}

WatchedValues == {BaseWatched, Num(0, 999, TRUE), Num(2, 0, FALSE)}

PercentValues == {BasePercent, Num(40, 0, FALSE)}

Differences(p, m, w, c) ==
    (IF p = BaseSeason THEN 0 ELSE 1) + (IF m = BaseEpisode THEN 0 ELSE 1)
    + (IF w = BaseWatched THEN 0 ELSE 1) + (IF c = BasePercent THEN 0 ELSE 1)

HandlerRecords ==
    {RecFields(Str("Show"), x[1], x[2], x[3], x[4]) :
        x \in {y \in SeasonValues \X EpisodeValues \X WatchedValues \X PercentValues :
                 Differences(y[1], y[2], y[3], y[4]) <= 1}}

HandlerBodies ==
    {Desc(env, 0, 1, rs) :
        env \in {"list", "truncated"}, rs \in SeqsUpTo(HandlerRecords, MaxRecs)}
    \cup {Desc("none", 0, 0, <<>>)}

UpstreamStatuses == {200, 201, 204, 404, 500}

Replies ==
    {Reply("error", 0, "", Desc("none", 0, 0, <<>>))}
    \cup {Reply("ok", st, "ok", d) :
            st \in UpstreamStatuses \ {StatusOK},
            d \in {Desc("none", 0, 0, <<>>),
                   Desc("list", 0, 1, <<RecFields(Str("Show"), BaseSeason, BaseEpisode,
                                                    BaseWatched, BasePercent)>>)}}
    \cup {Reply("ok", StatusOK, "error", Desc("none", 0, 0, <<>>))}
    \cup {Reply("ok", StatusOK, "ok", d) : d \in HandlerBodies}

(***************************************************************************)
(* The output directory when the server starts: empty, or holding what an  *)
(* earlier run left there.                                                 *)
(***************************************************************************)
EmptyFS == [q \in {} |-> File(MarshalIndent(ZeroMediaData), TRUE)]

OldDescriptor ==
    [full_title         |-> "Show",
     parent_media_index |-> [ip |-> 1, fr |-> 0, dot |-> FALSE],
     media_index        |-> [ip |-> 2, fr |-> 0, dot |-> FALSE],
     watched_status     |-> 1000,
     percent_complete   |-> 100]

InitialFiles ==
    {EmptyFS,
     WriteFile(EmptyFS, filepathJoin(OutputDir, EpisodeFilename("Show", 1, 2)),
               OldDescriptor, "ok")}

(***************************************************************************)
(* The Jellyfin handler.  body: whether the request body can be read and   *)
(* parses as JSON ("readerr", "badjson" or an "event"); jf: the event.     *)
(***************************************************************************)
JellyfinReq(method, body, jf) == Request("jellyfin", method, "", body, "", <<>>, jf)

JellyfinPayloads ==
    {JellyfinPayload(e, n, i, c, t, sn, se, ep) :
        e \in {"playback.stop", "playback.start"},
        n \in {"PlaybackStop", "PlaybackStart"},
        i \in {"Episode", "Movie", "Series"},
        c \in BOOLEAN,
        t \in {"Test Title", ""},
        sn \in {"Test Series", ""},
        se \in {1, 0},
        ep \in {2, 0}}

JellyfinRequests ==
    {JellyfinReq("GET", "event",
                 JellyfinPayload("playback.stop", "PlaybackStop", "Episode", TRUE,
                                 "Test Title", "Test Series", 1, 2)),
     JellyfinReq("POST", "readerr", ZeroJellyfinPayload),
     JellyfinReq("POST", "badjson", ZeroJellyfinPayload),
     JellyfinReq("POST", "event",
                 JellyfinPayload("playback.stop", "PlaybackStop", "Episode", TRUE,
                                 "Test Title", "../Evil", 1, 2)),
     JellyfinReq("POST", "event",
                 JellyfinPayload("playback.stop", "PlaybackStop", "Movie", TRUE,
                                 "sub/Evil", "Test Series", 0, 0))}
    \cup {JellyfinReq("POST", "event", p) : p \in JellyfinPayloads}

\* json.Number(strconv.Itoa(n))
Itoa(n) == [set |-> TRUE, ip |-> n, fr |-> 0, dot |-> FALSE]

\* A handler that takes an unparsable body as an empty event.
jellyfinParseLenient(r) ==
    IF r.method # "POST" THEN Response(405, "Method not allowed")
    ELSE IF r.payload = "readerr" THEN Response(400, "Error reading request body")
    ELSE NoResponse

\* handleJellyfinWebhook up to the parsed payload: the error response, if
\* the request is turned away.  A body that is form data (form is not "")
\* does not parse as JSON.
jellyfinParse(r) ==
    IF r.method # "POST" THEN Response(405, "Method not allowed")
    ELSE IF r.payload = "readerr" THEN Response(400, "Error reading request body")
    ELSE IF r.payload = "badjson" \/ r.form # "" THEN Response(400, "Error parsing payload")
    ELSE NoResponse

\* An event filter that lets an event pass only when both fields name a stop.
jellyfinEventFilterBothRequired(p) ==
    IF p.Event # "playback.stop" \/ p.NotificationType # "PlaybackStop" THEN "ignored"
    ELSE IF ~p.PlayedToCompletion THEN "incomplete"
    ELSE "pass"

\* The two filters: the event is no playback stop ("ignored"), the media
\* was not played to completion ("incomplete"), or the event goes on.
jellyfinEventFilter(p) ==
    IF p.Event # "playback.stop" /\ p.NotificationType # "PlaybackStop" THEN "ignored"
    ELSE IF ~p.PlayedToCompletion THEN "incomplete"
    ELSE "pass"

\* An episode descriptor that reports nothing as watched.
jellyfinEpisodeDataUnwatched(p) ==
    [FullTitle        |-> p.SeriesName \o " - " \o p.Title,
     ParentMediaIndex |-> Itoa(p.SeasonNumber),
     MediaIndex       |-> Itoa(p.EpisodeNumber),
     WatchedStatus    |-> 0,
     PercentComplete  |-> 0]

\* The MediaData built for an episode.
jellyfinEpisodeData(p) ==
    [FullTitle        |-> p.SeriesName \o " - " \o p.Title,
     ParentMediaIndex |-> Itoa(p.SeasonNumber),
     MediaIndex       |-> Itoa(p.EpisodeNumber),
     WatchedStatus    |-> 1000,
     PercentComplete  |-> 100]

\* The MediaData built for a movie.
jellyfinMovieData(p) ==
    [FullTitle        |-> p.Title,
     ParentMediaIndex |-> Itoa(0),
     MediaIndex       |-> Itoa(0),
     WatchedStatus    |-> 1000,
     PercentComplete  |-> 100]

\* A movie file name that carries a season and episode suffix.
MovieFilenameWithSuffix(title) == <<title, " - S", "0", "E", "0", ".json">>

\* fmt.Sprintf("%s.json", payload.Title)
MovieFilename(title) == <<title, ".json">>

\* A handler that writes every Episode, with or without a series name.
jellyfinTargetAnyEpisode(p) ==
    IF p.ItemType = "Episode"
    THEN [kind |-> "episode", data |-> jellyfinEpisodeData(p),
          filename |-> EpisodeFilename(p.SeriesName, p.SeasonNumber, p.EpisodeNumber)]
    ELSE IF p.ItemType = "Movie"
    THEN [kind |-> "movie", data |-> jellyfinMovieData(p),
          filename |-> MovieFilename(p.Title)]
    ELSE [kind |-> "none", data |-> ZeroMediaData, filename |-> <<>>]

\* What a completed stop event is written as: an episode, a movie, or
\* nothing for any other item.
jellyfinTarget(p) ==
    IF p.ItemType = "Episode" /\ p.SeriesName # ""
    THEN [kind |-> "episode", data |-> jellyfinEpisodeData(p),
          filename |-> EpisodeFilename(p.SeriesName, p.SeasonNumber, p.EpisodeNumber)]
    ELSE IF p.ItemType = "Movie"
    THEN [kind |-> "movie", data |-> jellyfinMovieData(p),
          filename |-> MovieFilename(p.Title)]
    ELSE [kind |-> "none", data |-> ZeroMediaData, filename |-> <<>>]

\* A Jellyfin handler that answers 200 OK when a file operation fails.
jellyfinHandleSkipsFailure(r, mk, wr) ==
    LET rej  == jellyfinParse(r)
        f    == jellyfinEventFilter(r.jf)
        t    == jellyfinTarget(r.jf)
        none == MarshalIndent(ZeroMediaData)
    IN  IF rej # NoResponse
        THEN [resp |-> rej, what |-> "rejected", path |-> <<>>, text |-> none]
        ELSE IF f # "pass"
        THEN [resp |-> Response(200, "OK"), what |-> f, path |-> <<>>, text |-> none]
        ELSE IF t.kind = "none"
        THEN [resp |-> Response(200, "OK"), what |-> "unsupported", path |-> <<>>,
              text |-> none]
        ELSE IF mk # "ok"
        THEN [resp |-> Response(200, "OK"),
              what |-> "mkdir", path |-> <<>>, text |-> MarshalIndent(t.data)]
        ELSE [resp |-> Response(200, "OK"),
              what |-> wr,
              path |-> filepathJoin(OutputDir, t.filename),
              text |-> MarshalIndent(t.data)]

\* handleJellyfinWebhook for request r, with MkdirAll and WriteFile going
\* the way of mk and wr: the response, what happened, and the write made,
\* if any.  (json.MarshalIndent cannot fail on a MediaData built here.)
jellyfinHandle(r, mk, wr) ==
    LET rej  == jellyfinParse(r)
        f    == jellyfinEventFilter(r.jf)
        t    == jellyfinTarget(r.jf)
        none == MarshalIndent(ZeroMediaData)
    IN  IF rej # NoResponse
        THEN [resp |-> rej, what |-> "rejected", path |-> <<>>, text |-> none]
        ELSE IF f # "pass"
        THEN [resp |-> Response(200, "OK"), what |-> f, path |-> <<>>, text |-> none]
        ELSE IF t.kind = "none"
        THEN [resp |-> Response(200, "OK"), what |-> "unsupported", path |-> <<>>,
              text |-> none]
        ELSE IF mk # "ok"
        THEN [resp |-> Response(500, "Error creating output directory"),
              what |-> "mkdir", path |-> <<>>, text |-> MarshalIndent(t.data)]
        ELSE [resp |-> IF wr = "ok" THEN Response(200, "OK")
                       ELSE Response(500, "Error writing file"),
              what |-> wr,
              path |-> filepathJoin(OutputDir, t.filename),
              text |-> MarshalIndent(t.data)]

(***************************************************************************)
(* Configuration.  The environment gives every variable a value or leaves  *)
(* it unset; values are character sequences.                               *)
(***************************************************************************)
EnvNames == {"PORT", "API_HOST", "API_KEY", "OUTPUT_DIR", "DEBUG"}

Unset == [set |-> FALSE, val |-> <<>>]

SetTo(val) == [set |-> TRUE, val |-> val]

\* os.Getenv(key): the value, or the empty string for an unset variable.
osGetenv(env, key) == IF env[key].set THEN env[key].val ELSE <<>>

\* A getEnv that returns the value of every variable that is set, empty or
\* not.
getEnvKeepsEmpty(env, key, defaultValue) ==
    IF ~env[key].set THEN defaultValue ELSE env[key].val

\* getEnv(key, defaultValue)
getEnv(env, key, defaultValue) ==
    LET value == osGetenv(env, key)
    IN  IF value = <<>> THEN defaultValue ELSE value

\* An int: its sign and the decimal digits of its magnitude, without
\* leading zeros (zero has no sign).
IntOf(neg, mag) == [neg |-> neg /\ mag # <<"0">>, mag |-> mag]

\* The value strconv.Atoi(s) returns with a nil error.
AtoiVal(s) ==
    LET signed == Len(s) > 0 /\ Head(s) \in {"+", "-"}
        digits == IF signed THEN Tail(s) ELSE s
    IN  IntOf(Len(s) > 0 /\ Head(s) = "-", StripZeros(digits))

\* loadConfig()
loadConfig(env) ==
    LET portStr == getEnv(env, "PORT", <<"3", "3", "3", "3">>)
    IN  [Port      |-> IF AtoiOk(portStr) THEN AtoiVal(portStr)
                       ELSE IntOf(FALSE, <<"3", "3", "3", "3">>),
         APIHost   |-> getEnv(env, "API_HOST", <<>>),
         APIKey    |-> getEnv(env, "API_KEY", <<>>),
         OutputDir |-> getEnv(env, "OUTPUT_DIR", <<"/", "o", "u", "t", "p", "u", "t">>),
         Debug     |-> getEnv(env, "DEBUG", <<"f", "a", "l", "s", "e">>)
                           = <<"t", "r", "u", "e">>]

\* The zero value of Config.
ZeroConfig ==
    [Port |-> IntOf(FALSE, <<"0">>), APIHost |-> <<>>, APIKey |-> <<>>,
     OutputDir |-> <<>>, Debug |-> FALSE]

\* Values of PORT: "3333", "8080", "+80", "-1", "0080", "-0", "abc", "80a",
\* " 80", "1e3", "0x50", "+", 2^63 - 1 and 2^63.
PortValues ==
    {<<"3", "3", "3", "3">>, <<"8", "0", "8", "0">>, <<"+", "8", "0">>, <<"-", "1">>,
     <<"0", "0", "8", "0">>, <<"-", "0">>, <<"a", "b", "c">>, <<"8", "0", "a">>,
     <<" ", "8", "0">>, <<"1", "e", "3">>, <<"0", "x", "5", "0">>, <<"+">>,
     <<"9","2","2","3","3","7","2","0","3","6","8","5","4","7","7","5","8","0","7">>,
     Int64Cutoff}

\* Values of API_HOST and API_KEY: "http://t", "k".
HostValues == {<<"h", "t", "t", "p", ":", "/", "/", "t">>}

KeyValues == {<<"k">>}

\* Values of OUTPUT_DIR: "/output", "/data".
OutputDirValues == {<<"/", "o", "u", "t", "p", "u", "t">>, <<"/", "d", "a", "t", "a">>}

\* Values of DEBUG: "true", "false", "TRUE", "1", "true ".
DebugValues ==
    {<<"t", "r", "u", "e">>, <<"f", "a", "l", "s", "e">>, <<"T", "R", "U", "E">>,
     <<"1">>, <<"t", "r", "u", "e", " ">>}

\* What the environment can hold for a variable: nothing, the empty string,
\* or one of these values.
Settings(values) == {Unset, SetTo(<<>>)} \cup {SetTo(v) : v \in values}

Environments ==
    {[k \in EnvNames |->
        CASE k = "PORT" -> p [] k = "API_HOST" -> h [] k = "API_KEY" -> a
          [] k = "OUTPUT_DIR" -> o [] k = "DEBUG" -> d] :
        p \in Settings(PortValues), h \in Settings(HostValues),
        a \in Settings(KeyValues), o \in Settings(OutputDirValues),
        d \in Settings(DebugValues)}

(***************************************************************************)
(* Routing.  main registers the Plex handler under "/plex", the Jellyfin   *)
(* handler under "/jellyfin" and a default handler under "/", which tells  *)
(* the sender by the Content-Type header.                                  *)
(***************************************************************************)
\* strings.Contains(contentType, piece), for a header cut into pieces.
Contains(ctype, piece) == \E i \in 1..Len(ctype) : ctype[i] = piece

\* Whether the ServeMux takes the path as it is: cleaning it would change
\* nothing (no empty segment but a last one, no "." and no ".." segment).
IsCleanPath(path) ==
    /\ Len(path) >= 1
    /\ \A i \in 1..Len(path) :
         /\ path[i] \notin {".", ".."}
         /\ path[i] = "" => i = Len(path)

\* The pattern the ServeMux serves the path under: "/plex" and "/jellyfin"
\* match only themselves, "/" matches every other path; a path that is not
\* clean is answered with a redirect to the cleaned path.
muxPattern(path) ==
    IF ~IsCleanPath(path) THEN "redirect"
    ELSE IF path = <<"plex">> THEN "/plex"
    ELSE IF path = <<"jellyfin">> THEN "/jellyfin"
    ELSE "/"

\* A default handler that looks for application/json first.
defaultHandlerJsonFirst(r) ==
    IF r.path # <<"">>
    THEN [route |-> "none", resp |-> Response(404, "404 page not found"), log |-> <<>>]
    ELSE IF Contains(r.ctype, "application/json")
    THEN [route |-> "jellyfin", resp |-> NoResponse,
          log |-> <<"Detected Jellyfin webhook based on Content-Type">>]
    ELSE IF Contains(r.ctype, "multipart/form-data")
    THEN [route |-> "plex", resp |-> NoResponse,
          log |-> <<"Detected Plex webhook based on Content-Type">>]
    ELSE [route |-> "none", resp |-> Response(400, "Unable to determine webhook type"),
          log |-> <<>>]

\* The handler registered under "/": the handler it hands the request to,
\* or the response it writes itself, and the line it logs under Debug.
defaultHandler(r) ==
    IF r.path # <<"">>
    THEN [route |-> "none", resp |-> Response(404, "404 page not found"), log |-> <<>>]
    ELSE IF Contains(r.ctype, "multipart/form-data")
    THEN [route |-> "plex", resp |-> NoResponse,
          log |-> <<"Detected Plex webhook based on Content-Type">>]
    ELSE IF Contains(r.ctype, "application/json")
    THEN [route |-> "jellyfin", resp |-> NoResponse,
          log |-> <<"Detected Jellyfin webhook based on Content-Type">>]
    ELSE [route |-> "none", resp |-> Response(400, "Unable to determine webhook type"),
          log |-> <<>>]

\* The same body sent with another method, to another path, under another
\* Content-Type.  A form body parses only under a multipart Content-Type.
Via(r, method, path, ctype) ==
    [r EXCEPT !.method = method, !.path = path, !.ctype = ctype,
              !.form = IF r.form = "" THEN ""
                       ELSE IF Len(ctype) >= 1 /\ ctype[1] = "multipart/form-data"
                       THEN "ok" ELSE "bad"]

\* "/", "/plex", "/jellyfin", "/unknown", "/plex/", "//plex", "/a/../plex"
RoutedPaths ==
    {<<"">>, <<"plex">>, <<"jellyfin">>, <<"unknown">>, <<"plex", "">>,
     <<"", "plex">>, <<"a", "..", "plex">>}

ContentTypes ==
    {<<"multipart/form-data", "; boundary=x">>,
     <<"application/json">>,
     <<"multipart/form-data", "; boundary=x; alt=", "application/json">>,
     <<"text/plain">>,
     <<>>}

RoutedBodies ==
    {PlexReq("POST", "ok", "event", "media.play", <<"M", "7">>),
     JellyfinReq("POST", "event",
                 JellyfinPayload("playback.stop", "PlaybackStop", "Episode", TRUE,
                                 "Test Title", "Test Series", 1, 2))}

RoutedRequests ==
    {Via(b, m, p, c) : b \in RoutedBodies, m \in {"POST", "GET"},
                       p \in RoutedPaths, c \in ContentTypes}
    \cup {Via(PlexReq("POST", "ok", "event", "media.stop", <<"M", "7">>),
               "POST", <<"">>, <<"multipart/form-data", "; boundary=x">>)}

(***************************************************************************)
(* The lines logged under config.Debug.                                    *)
(***************************************************************************)
\* handlePlexWebhook and fetchMetadata up to http.Get.
plexBeforeFetchLog(r) ==
    IF r.method # "POST" \/ r.form # "ok" \/ r.payload # "event" THEN <<>>
    ELSE IF r.event # "media.stop" THEN <<"Ignoring Plex event">>
    ELSE IF PathOf(r.key) = <<>> THEN <<"Invalid Plex request, No metadata found">>
    ELSE IF extractKeyFromPath(PathOf(r.key)) = <<>>
    THEN <<"Could not extract key from path", "No entries found in Tautulli">>
    ELSE <<>>

\* handlePlexWebhook after fetchMetadata.
plexAfterFetchLog(res) ==
    IF res.err # NoErr THEN <<>>
    ELSE IF Len(res.recs) = 0 THEN <<"No entries found in Tautulli">>
    ELSE <<"Found entries">>

\* One iteration of the record loop.
plexRecordStepLog(step) ==
    IF step.what = "unwatched" THEN <<"Media not marked as watched by Plex, ignoring">>
    ELSE <<>>

\* handleJellyfinWebhook.
jellyfinHandleLog(h) ==
    IF h.what = "ignored" THEN <<"Ignoring Jellyfin event">>
    ELSE IF h.what = "incomplete" THEN <<"Jellyfin media not played to completion, ignoring">>
    ELSE IF h.what = "unsupported" THEN <<"Unsupported Jellyfin item type">>
    ELSE <<>>

(***************************************************************************)
(* Actions of the relay, for the request in slot s.                        *)
(***************************************************************************)
RelayIdle ==
    /\ files = EmptyFS
    /\ pc = [s \in Slots |-> "idle"]
    /\ req = [s \in Slots |-> NoReq]
    /\ outbound = [s \in Slots |-> <<>>]
    /\ upstream = [s \in Slots |-> NoReply]
    /\ fetchErr = [s \in Slots |-> NoErr]
    /\ media = [s \in Slots |-> <<>>]
    /\ recIdx = [s \in Slots |-> 0]
    /\ io = [s \in Slots |-> <<>>]
    /\ written = [s \in Slots |-> <<>>]
    /\ resp = [s \in Slots |-> NoResponse]
    /\ trace = <<>>
    /\ debug = [s \in Slots |-> FALSE]
    /\ logs = [s \in Slots |-> <<>>]

\* The relay waits for a request, with DEBUG=true (every line of the model
\* is logged), on an output directory of InitialFiles.
RelayInit ==
    /\ files \in InitialFiles
    /\ pc = [s \in Slots |-> "idle"]
    /\ req = [s \in Slots |-> NoReq]
    /\ outbound = [s \in Slots |-> <<>>]
    /\ upstream = [s \in Slots |-> NoReply]
    /\ fetchErr = [s \in Slots |-> NoErr]
    /\ media = [s \in Slots |-> <<>>]
    /\ recIdx = [s \in Slots |-> 0]
    /\ io = [s \in Slots |-> <<>>]
    /\ written = [s \in Slots |-> <<>>]
    /\ resp = [s \in Slots |-> NoResponse]
    /\ trace = <<>>
    /\ debug = [s \in Slots |-> TRUE]
    /\ logs = [s \in Slots |-> <<>>]

\* An entry of trace: the request in slot s arrived ("recv"), a file was
\* written for it ("write"), or its response was written ("resp").
Ev(s, e) == [slot |-> s, ev |-> e]

\* logs with lines added for slot s, if its process runs under Debug.
Logged(s, lines) == [logs EXCEPT ![s] = IF debug[s] THEN @ \o lines ELSE @]

\* A Plex handler that, under Debug, answers every stop event at once and
\* asks nobody.
PlexEnterDebugAnswersEarly(s, r, lines) ==
    LET c == plexBeforeFetch(r)
        b == IF debug[s] /\ c.resp = NoResponse
             THEN [resp |-> Response(200, "OK"), key |-> <<>>] ELSE c
    IN  /\ req' = [req EXCEPT ![s] = [r EXCEPT !.source = "plex"]]
        /\ resp' = [resp EXCEPT ![s] = b.resp]
        /\ logs' = Logged(s, lines \o plexBeforeFetchLog(r))
        /\ IF b.resp # NoResponse
           THEN /\ pc' = [pc EXCEPT ![s] = "done"]
                /\ trace' = trace \o <<Ev(s, "recv"), Ev(s, "resp")>>
                /\ UNCHANGED outbound
           ELSE /\ pc' = [pc EXCEPT ![s] = "fetch"]
                /\ trace' = Append(trace, Ev(s, "recv"))
                /\ outbound' = [outbound EXCEPT ![s] = Append(@, b.key)]
        /\ UNCHANGED <<files, upstream, fetchErr, media, recIdx, io, written, debug,
                       keyVars, fetchVars, configVars>>

\* handlePlexWebhook is called with request r (lines: what the caller
\* logged under Debug); it runs until it has answered or has sent the
\* history request and waits for the answer.
PlexEnter(s, r, lines) ==
    LET b == plexBeforeFetch(r)
    IN  /\ req' = [req EXCEPT ![s] = [r EXCEPT !.source = "plex"]]
        /\ resp' = [resp EXCEPT ![s] = b.resp]
        /\ logs' = Logged(s, lines \o plexBeforeFetchLog(r))
        /\ IF b.resp # NoResponse
           THEN /\ pc' = [pc EXCEPT ![s] = "done"]
                /\ trace' = trace \o <<Ev(s, "recv"), Ev(s, "resp")>>
                /\ UNCHANGED outbound
           ELSE /\ pc' = [pc EXCEPT ![s] = "fetch"]
                /\ trace' = Append(trace, Ev(s, "recv"))
                /\ outbound' = [outbound EXCEPT ![s] = Append(@, b.key)]
        /\ UNCHANGED <<files, upstream, fetchErr, media, recIdx, io, written, debug,
                       keyVars, fetchVars, configVars>>

\* A Jellyfin handler that asks the history API for the item as well.
JellyfinEnterAsksHistory(s, r, mk, wr, lines) ==
    LET h == jellyfinHandle(r, mk, wr)
    IN  /\ req' = [req EXCEPT ![s] = [r EXCEPT !.source = "jellyfin"]]
        /\ resp' = [resp EXCEPT ![s] = h.resp]
        /\ io' = [io EXCEPT ![s] = <<h.what>>]
        /\ logs' = Logged(s, lines \o jellyfinHandleLog(h))
        /\ outbound' = [outbound EXCEPT ![s] =
               IF h.what = "rejected" THEN @ ELSE Append(@, <<"0">>)]
        /\ IF Wrote(h)
           THEN /\ files' = WriteFile(files, h.path, h.text, h.what)
                /\ written' = [written EXCEPT ![s] =
                       Append(@, [rec |-> 1, path |-> h.path,
                                  text |-> h.text, whole |-> h.what = "ok"])]
                /\ trace' = trace \o <<Ev(s, "recv"), Ev(s, "write"), Ev(s, "resp")>>
           ELSE /\ trace' = trace \o <<Ev(s, "recv"), Ev(s, "resp")>>
                /\ UNCHANGED <<files, written>>
        /\ pc' = [pc EXCEPT ![s] = "done"]
        /\ UNCHANGED <<upstream, fetchErr, media, recIdx, debug, keyVars, fetchVars, configVars>>

\* handleJellyfinWebhook is called with request r and runs to its response,
\* with MkdirAll and WriteFile going the way of mk and wr.
JellyfinEnter(s, r, mk, wr, lines) ==
    LET h == jellyfinHandle(r, mk, wr)
    IN  /\ req' = [req EXCEPT ![s] = [r EXCEPT !.source = "jellyfin"]]
        /\ resp' = [resp EXCEPT ![s] = h.resp]
        /\ io' = [io EXCEPT ![s] = <<h.what>>]
        /\ logs' = Logged(s, lines \o jellyfinHandleLog(h))
        /\ IF Wrote(h)
           THEN /\ files' = WriteFile(files, h.path, h.text, h.what)
                /\ written' = [written EXCEPT ![s] =
                       Append(@, [rec |-> 1, path |-> h.path,
                                  text |-> h.text, whole |-> h.what = "ok"])]
                /\ trace' = trace \o <<Ev(s, "recv"), Ev(s, "write"), Ev(s, "resp")>>
           ELSE /\ trace' = trace \o <<Ev(s, "recv"), Ev(s, "resp")>>
                /\ UNCHANGED <<files, written>>
        /\ pc' = [pc EXCEPT ![s] = "done"]
        /\ UNCHANGED <<outbound, upstream, fetchErr, media, recIdx, debug,
                       keyVars, fetchVars, configVars>>

\* Request r is answered with rs before it reaches a webhook handler.
Answer(s, r, rs) ==
    /\ req' = [req EXCEPT ![s] = [r EXCEPT !.source = "none"]]
    /\ resp' = [resp EXCEPT ![s] = rs]
    /\ pc' = [pc EXCEPT ![s] = "done"]
    /\ trace' = trace \o <<Ev(s, "recv"), Ev(s, "resp")>>
    /\ UNCHANGED <<files, outbound, upstream, fetchErr, media, recIdx, io, written,
                   debug, logs, keyVars, fetchVars, configVars>>

\* The ServeMux takes request r and calls the handler of its pattern.
Serve(s, r, mk, wr) ==
    /\ pc[s] = "idle"
    /\ LET pattern == muxPattern(r.path)
           d       == defaultHandler(r)
       IN  CASE pattern = "/plex" -> PlexEnter(s, r, <<>>)
             [] pattern = "/jellyfin" -> JellyfinEnter(s, r, mk, wr, <<>>)
             [] pattern = "/" /\ d.route = "plex" -> PlexEnter(s, r, d.log)
             [] pattern = "/" /\ d.route = "jellyfin" -> JellyfinEnter(s, r, mk, wr, d.log)
             [] pattern = "/" /\ d.route = "none" -> Answer(s, r, d.resp)
             [] OTHER -> Answer(s, r, Response(301, "Moved Permanently"))

\* A request arrives at "/plex".
PlexReceive(s) ==
    /\ pc[s] = "idle"
    /\ \E r \in PlexRequests \cup RoutedRequests :
         /\ muxPattern(r.path) = "/plex"
         /\ Serve(s, r, "ok", "ok")

\* A handler that asks the history API again when the call failed.
PlexUpstreamReplyRetries(s) ==
    /\ pc[s] = "fetch"
    /\ \E rp \in Replies :
         LET res == fetchAfterGet(rp)
             a   == plexAfterFetch(res)
         IN  /\ upstream' = [upstream EXCEPT ![s] = rp]
             /\ fetchErr' = [fetchErr EXCEPT ![s] = res.err]
             /\ media' = [media EXCEPT ![s] = res.recs]
             /\ logs' = Logged(s, plexAfterFetchLog(res))
             /\ IF res.err # NoErr
                THEN /\ outbound' = [outbound EXCEPT ![s] = Append(@, @[1])]
                     /\ UNCHANGED <<pc, resp, recIdx, trace>>
                ELSE /\ resp' = [resp EXCEPT ![s] = a]
                     /\ UNCHANGED outbound
                     /\ IF a # NoResponse
                        THEN /\ pc' = [pc EXCEPT ![s] = "done"]
                             /\ trace' = Append(trace, Ev(s, "resp"))
                             /\ UNCHANGED recIdx
                        ELSE /\ pc' = [pc EXCEPT ![s] = "loop"]
                             /\ recIdx' = [recIdx EXCEPT ![s] = 1]
                             /\ UNCHANGED trace
    /\ UNCHANGED <<files, req, io, written, debug, keyVars, fetchVars, configVars>>

\* http.Get returns with rp; fetchMetadata returns; the handler answers, or
\* enters the record loop.
HistoryReturns(s, rp) ==
    LET res == fetchAfterGet(rp)
        a   == plexAfterFetch(res)
    IN  /\ pc[s] = "fetch"
        /\ upstream' = [upstream EXCEPT ![s] = rp]
        /\ fetchErr' = [fetchErr EXCEPT ![s] = res.err]
        /\ media' = [media EXCEPT ![s] = res.recs]
        /\ resp' = [resp EXCEPT ![s] = a]
        /\ logs' = Logged(s, plexAfterFetchLog(res))
        /\ IF a # NoResponse
           THEN /\ pc' = [pc EXCEPT ![s] = "done"]
                /\ trace' = Append(trace, Ev(s, "resp"))
                /\ UNCHANGED recIdx
           ELSE /\ pc' = [pc EXCEPT ![s] = "loop"]
                /\ recIdx' = [recIdx EXCEPT ![s] = 1]
                /\ UNCHANGED trace
        /\ UNCHANGED <<files, req, outbound, io, written, debug,
                       keyVars, fetchVars, configVars>>

\* The history call of slot s returns, with any reply of Replies.
PlexUpstreamReply(s) ==
    /\ pc[s] = "fetch"
    /\ \E rp \in Replies : HistoryReturns(s, rp)

\* A record loop that ends at the first record that fails.
PlexProcessRecordAborts(s) ==
    /\ pc[s] = "loop"
    /\ \E mk \in {"ok", "fail"}, wr \in {"ok", "openfail", "partial"} :
         LET step == plexRecordStep(media[s][recIdx[s]], mk, wr)
         IN  /\ io' = [io EXCEPT ![s] = Append(@, step.what)]
             /\ logs' = Logged(s, plexRecordStepLog(step))
             /\ IF Wrote(step)
                THEN /\ files' = WriteFile(files, step.path, step.text, step.what)
                     /\ written' = [written EXCEPT ![s] =
                            Append(@, [rec |-> recIdx[s], path |-> step.path,
                                       text |-> step.text, whole |-> step.what = "ok"])]
                     /\ trace' = Append(trace, Ev(s, "write"))
                ELSE UNCHANGED <<files, written, trace>>
             /\ pc' = [pc EXCEPT ![s] =
                          IF recIdx[s] = Len(media[s])
                             \/ step.what \in {"convert", "mkdir", "openfail", "partial"}
                          THEN "respond" ELSE "loop"]
    /\ recIdx' = [recIdx EXCEPT ![s] = @ + 1]
    /\ UNCHANGED <<req, outbound, upstream, fetchErr, media, resp, debug,
                   keyVars, fetchVars, configVars>>

\* One iteration of the record loop, with MkdirAll and WriteFile going the
\* way of mk and wr.
RecordStep(s, mk, wr) ==
    /\ pc[s] = "loop"
    /\ LET step == plexRecordStep(media[s][recIdx[s]], mk, wr)
       IN  /\ io' = [io EXCEPT ![s] = Append(@, step.what)]
           /\ logs' = Logged(s, plexRecordStepLog(step))
           /\ IF Wrote(step)
              THEN /\ files' = WriteFile(files, step.path, step.text, step.what)
                   /\ written' = [written EXCEPT ![s] =
                          Append(@, [rec |-> recIdx[s], path |-> step.path,
                                     text |-> step.text, whole |-> step.what = "ok"])]
                   /\ trace' = Append(trace, Ev(s, "write"))
              ELSE UNCHANGED <<files, written, trace>>
    /\ recIdx' = [recIdx EXCEPT ![s] = @ + 1]
    /\ pc' = [pc EXCEPT ![s] = IF recIdx[s] = Len(media[s]) THEN "respond" ELSE "loop"]
    /\ UNCHANGED <<req, outbound, upstream, fetchErr, media, resp, debug,
                   keyVars, fetchVars, configVars>>

\* One iteration of the record loop, the file operations going any way.
PlexProcessRecord(s) ==
    /\ pc[s] = "loop"
    /\ \E mk \in {"ok", "fail"}, wr \in {"ok", "openfail", "partial"} :
         RecordStep(s, mk, wr)

\* A handler that writes its 200 OK and does not return.
PlexRespondStays(s) ==
    /\ pc[s] = "respond"
    /\ Len(trace) < 8
    /\ resp' = [resp EXCEPT ![s] = Response(200, "OK")]
    /\ trace' = Append(trace, Ev(s, "resp"))
    /\ UNCHANGED <<files, pc, req, outbound, upstream, fetchErr, media, recIdx, io, written,
                   debug, logs, keyVars, fetchVars, configVars>>

\* The loop is over: 200 OK.
PlexRespond(s) ==
    /\ pc[s] = "respond"
    /\ resp' = [resp EXCEPT ![s] = Response(200, "OK")]
    /\ pc' = [pc EXCEPT ![s] = "done"]
    /\ trace' = Append(trace, Ev(s, "resp"))
    /\ UNCHANGED <<files, req, outbound, upstream, fetchErr, media, recIdx, io, written,
                   debug, logs, keyVars, fetchVars, configVars>>

\* A request arrives at "/jellyfin".
JellyfinReceive(s) ==
    /\ pc[s] = "idle"
    /\ \E r \in JellyfinRequests \cup RoutedRequests, mk \in {"ok", "fail"},
          wr \in {"ok", "openfail", "partial"} :
         /\ muxPattern(r.path) = "/jellyfin"
         /\ Serve(s, r, mk, wr)

\* A request arrives at a path that has no pattern of its own: the default
\* handler tells the sender, or turns the request away.
DefaultReceive(s) ==
    /\ pc[s] = "idle"
    /\ \E r \in RoutedRequests, mk \in {"ok", "fail"},
          wr \in {"ok", "openfail", "partial"} :
         /\ muxPattern(r.path) = "/"
         /\ Serve(s, r, mk, wr)

\* A request arrives at a path that is not clean: the ServeMux redirects
\* the sender to the cleaned path.
MuxRedirect(s) ==
    /\ pc[s] = "idle"
    /\ \E r \in RoutedRequests :
         /\ muxPattern(r.path) = "redirect"
         /\ Serve(s, r, "ok", "ok")

(***************************************************************************)
(* SpecKey: extractKeyFromPath applied to every path of PathInputs.        *)
(***************************************************************************)
KeyInit ==
    /\ kPath \in {PathOf(t) : t \in PathInputs}
    /\ kKey = <<>>
    /\ kDone = FALSE

FetchIdle ==
    /\ fDesc = Desc("none", 0, 0, <<>>)
    /\ fBody = <<>>
    /\ fResult = [err |-> FALSE, recs |-> <<>>]
    /\ fDone = FALSE

ConfigIdle ==
    /\ cEnv = [k \in EnvNames |-> Unset]
    /\ cConfig = ZeroConfig
    /\ cDone = FALSE

KeyIdle ==
    /\ kPath = <<>>
    /\ kKey = <<>>
    /\ kDone = FALSE

ExtractKey ==
    /\ ~kDone
    /\ kKey' = extractKeyFromPath(kPath)
    /\ kDone' = TRUE
    /\ UNCHANGED <<kPath, fetchVars, relayVars, configVars>>

KeyNext == ExtractKey

InitKey == KeyInit /\ FetchIdle /\ RelayIdle /\ ConfigIdle

SpecKey == InitKey /\ [][KeyNext]_vars

(***************************************************************************)
(* SpecFetch: the body handling of fetchMetadata (normalize, decode)       *)
(* applied to every body of FetchInputs.                                   *)
(***************************************************************************)
FetchInit ==
    /\ fDesc \in FetchInputs
    /\ fBody = Render(fDesc)
    /\ fResult = [err |-> FALSE, recs |-> <<>>]
    /\ fDone = FALSE

DecodeResponse ==
    /\ ~fDone
    /\ fResult' = decodeBody(fBody)
    /\ fDone' = TRUE
    /\ UNCHANGED <<fDesc, fBody, keyVars, relayVars, configVars>>

FetchNext == DecodeResponse

InitFetch == FetchInit /\ KeyIdle /\ RelayIdle /\ ConfigIdle

SpecFetch == InitFetch /\ [][FetchNext]_vars

(***************************************************************************)
(* SpecConfig: loadConfig applied to every environment of Environments.    *)
(***************************************************************************)
ConfigInit ==
    /\ cEnv \in Environments
    /\ cConfig = ZeroConfig
    /\ cDone = FALSE

LoadConfig ==
    /\ ~cDone
    /\ cConfig' = loadConfig(cEnv)
    /\ cDone' = TRUE
    /\ UNCHANGED <<cEnv, keyVars, fetchVars, relayVars>>

ConfigNext == LoadConfig

InitConfig == ConfigInit /\ KeyIdle /\ FetchIdle /\ RelayIdle

SpecConfig == InitConfig /\ [][ConfigNext]_vars

(***************************************************************************)
(* Spec: one request, Plex or Jellyfin, from its arrival to its response,   *)
(* on an output directory that is empty or holds an older descriptor.      *)
(***************************************************************************)
Init == KeyIdle /\ FetchIdle /\ RelayInit /\ ConfigIdle

Next ==
    \/ PlexReceive(1)
    \/ PlexUpstreamReply(1)
    \/ PlexProcessRecord(1)
    \/ PlexRespond(1)
    \/ JellyfinReceive(1)
    \/ DefaultReceive(1)
    \/ MuxRedirect(1)

Spec == Init /\ [][Next]_vars

(***************************************************************************)
(* SpecLive: Spec, where the history call returns or fails in the end and  *)
(* a handler that can take its next step takes it.                         *)
(***************************************************************************)
SpecLive ==
    /\ Init
    /\ [][Next]_vars
    /\ WF_vars(PlexUpstreamReply(1))
    /\ WF_vars(PlexProcessRecord(1))
    /\ WF_vars(PlexRespond(1))

(***************************************************************************)
(* SpecTwin: the same request served twice, by a relay that runs with      *)
(* DEBUG=true (slot 1) and then by one that runs with DEBUG=false (slot    *)
(* 2), the history API and the file operations behaving the same way.      *)
(***************************************************************************)
RelayTwin ==
    /\ files = EmptyFS
    /\ pc = [s \in Slots |-> "idle"]
    /\ req = [s \in Slots |-> NoReq]
    /\ outbound = [s \in Slots |-> <<>>]
    /\ upstream = [s \in Slots |-> NoReply]
    /\ fetchErr = [s \in Slots |-> NoErr]
    /\ media = [s \in Slots |-> <<>>]
    /\ recIdx = [s \in Slots |-> 0]
    /\ io = [s \in Slots |-> <<>>]
    /\ written = [s \in Slots |-> <<>>]
    /\ resp = [s \in Slots |-> NoResponse]
    /\ trace = <<>>
    /\ debug = [s \in Slots |-> s = 1]
    /\ logs = [s \in Slots |-> <<>>]

InitTwin == KeyIdle /\ FetchIdle /\ RelayTwin /\ ConfigIdle

\* a is a prefix of b.
IsPrefix(a, b) == Len(a) <= Len(b) /\ a = SubSeq(b, 1, Len(a))

\* A step of the relay for the request in slot s.
RelayStep(s) ==
    \/ PlexReceive(s)
    \/ PlexUpstreamReply(s)
    \/ PlexProcessRecord(s)
    \/ PlexRespond(s)
    \/ JellyfinReceive(s)
    \/ DefaultReceive(s)
    \/ MuxRedirect(s)

\* The file operation that failed in a step that went this way, if any.
Failure(what) == IF what \in {"mkdir", "openfail", "partial"} THEN what ELSE "none"

\* The file operations of the steps a failed as those of the steps b did,
\* as far as a goes.
SameFailures(a, b) ==
    /\ Len(a) <= Len(b)
    /\ \A i \in 1..Len(a) : Failure(a[i]) = Failure(b[i])

\* The first run is over; the second run takes a step, on the request of
\* the first run, with the reply the first run got from the history API,
\* its file operations failing where those of the first run failed.
TwinFollow ==
    /\ pc[1] = "done"
    /\ \/ \E mk \in {"ok", "fail"}, wr \in {"ok", "openfail", "partial"} :
             Serve(2, req[1], mk, wr) /\ SameFailures(io'[2], io[1])
       \/ HistoryReturns(2, upstream[1])
       \/ \E mk \in {"ok", "fail"}, wr \in {"ok", "openfail", "partial"} :
             RecordStep(2, mk, wr) /\ SameFailures(io'[2], io[1])
       \/ PlexRespond(2)

TwinNext == RelayStep(1) \/ TwinFollow

SpecTwin == InitTwin /\ [][TwinNext]_vars

(***************************************************************************)
(* SpecPair: two requests in flight at once.  net/http serves each in a    *)
(* goroutine of its own, and os.WriteFile is two steps to the file system: *)
(* it opens the file (O_WRONLY|O_CREATE|O_TRUNC), which empties it, and    *)
(* then writes the text at the start of the file; the steps of two         *)
(* requests interleave.  No file operation fails here.                     *)
(***************************************************************************)
\* The digits of the natural number n.
DecLen(n) == Len(ToString(n))

\* The length of a json.Number as it is written.
NumberLen(n) == DecLen(n.ip) + (IF n.dot THEN 1 + DecLen(n.fr) ELSE 0)

\* The length of a float64, held in thousandths, as encoding/json writes
\* it: the shortest decimal text.
FloatLen(w) ==
    DecLen(w \div 1000)
    + (IF w % 1000 = 0 THEN 0
       ELSE IF w % 100 = 0 THEN 2
       ELSE IF w % 10 = 0 THEN 3
       ELSE 4)

\* The keys of a descriptor, in the order of the fields of MediaData.
DescriptorKeys ==
    <<"full_title", "parent_media_index", "media_index", "watched_status",
      "percent_complete">>

\* The length of what json.MarshalIndent(data, "", "  ") returns: a line
\* with the opening brace, a line per field (two spaces, the key in quotes,
\* a colon and a space, the value, a comma after every field but the last,
\* a newline) and the closing brace; the title stands in quotes.
jsonLen(text) ==
    LET keys == Len(DescriptorKeys[1]) + Len(DescriptorKeys[2]) + Len(DescriptorKeys[3])
                + Len(DescriptorKeys[4]) + Len(DescriptorKeys[5])
    IN  2 + keys + 7 * Len(DescriptorKeys) + (Len(DescriptorKeys) - 1) + 1
        + 2 + Len(text.full_title)
        + NumberLen(text.parent_media_index)
        + NumberLen(text.media_index)
        + FloatLen(text.watched_status)
        + DecLen(text.percent_complete)

\* A file that was opened with O_TRUNC and not written yet.
Truncated == [whole |-> FALSE, len |-> 0]

\* A file that holds text, written over the start of the longer text
\* under: the end of under is still there behind it.
Torn(text, under) == [text |-> text, whole |-> FALSE, under |-> under]

\* The length of file f.
fileLen(f) ==
    IF f = Truncated THEN 0
    ELSE IF f.whole THEN jsonLen(f.text)
    ELSE jsonLen(f.under)

\* An open that leaves the content of a file that is there.
OpenFileKeeps(fs, path) ==
    [q \in (DOMAIN fs) \cup {path} |-> IF q \in DOMAIN fs THEN fs[q] ELSE Truncated]

\* os.WriteFile, first step: OpenFile(path, O_WRONLY|O_CREATE|O_TRUNC).
OpenFile(fs, path) ==
    [q \in (DOMAIN fs) \cup {path} |-> IF q = path THEN Truncated ELSE fs[q]]

\* os.WriteFile, second step: f.Write(text), at offset 0 of the open
\* file.  What lies behind the end of text stays.
WriteAt(fs, path, text) ==
    LET cur == fs[path]
    IN  [fs EXCEPT ![path] =
            IF fileLen(cur) <= jsonLen(text) THEN File(text, TRUE)
            ELSE Torn(text, IF cur.whole THEN cur.text ELSE cur.under)]

\* The stop event of a Plex item.
PairPlexRequest == PlexReq("POST", "ok", "event", "media.stop", <<"M", "7">>)

\* History replies of one record: two shows, watched (to 98 or to 100
\* percent) or not.
PairReplies ==
    {Reply("ok", StatusOK, "ok",
           Desc("list", 0, 1, <<RecFields(Str(t), BaseSeason, BaseEpisode, w, c)>>)) :
        t \in {"Show", "Else"},
        w \in {BaseWatched, Num(0, 999, TRUE)},
        c \in {BasePercent, Num(100, 0, FALSE)}}

\* Jellyfin events: episodes of one show, a movie, and an event that is
\* no stop.
PairJellyfinRequests ==
    {JellyfinReq("POST", "event",
                 JellyfinPayload("playback.stop", "PlaybackStop", "Episode", TRUE,
                                 t, "Show", 1, e)) :
        t \in {"Pilot", "The Long Goodbye"}, e \in {2, 3}}
    \cup {JellyfinReq("POST", "event",
                      JellyfinPayload("playback.stop", "PlaybackStop", "Movie", TRUE,
                                      "Film", "", 0, 0)),
          JellyfinReq("POST", "event",
                      JellyfinPayload("playback.start", "PlaybackStart", "Episode", FALSE,
                                      "Pilot", "Show", 1, 2))}

\* The stop event of a Plex item arrives; the handler asks the history API.
PairPlexArrive(s) ==
    /\ pc[s] = "idle"
    /\ PlexEnter(s, PairPlexRequest, <<>>)

\* The history call of slot s returns.
PairHistory(s) ==
    /\ pc[s] = "fetch"
    /\ \E rp \in PairReplies : HistoryReturns(s, rp)

\* The record loop of slot s goes on to the os.WriteFile of its record and
\* opens the file, or goes over a record it does not write.
PlexOpenRecord(s) ==
    /\ pc[s] = "loop"
    /\ LET step == plexRecordStep(media[s][recIdx[s]], "ok", "ok")
       IN  IF Wrote(step)
           THEN /\ files' = OpenFile(files, step.path)
                /\ pc' = [pc EXCEPT ![s] = "write"]
                /\ UNCHANGED <<req, outbound, upstream, fetchErr, media, recIdx, io,
                               written, resp, trace, debug, logs,
                               keyVars, fetchVars, configVars>>
           ELSE RecordStep(s, "ok", "ok")

\* os.WriteFile of slot s writes the descriptor and returns; the loop goes
\* to its next record.
PlexWriteRecord(s) ==
    /\ pc[s] = "write"
    /\ LET step == plexRecordStep(media[s][recIdx[s]], "ok", "ok")
       IN  /\ files' = WriteAt(files, step.path, step.text)
           /\ io' = [io EXCEPT ![s] = Append(@, step.what)]
           /\ logs' = Logged(s, plexRecordStepLog(step))
           /\ written' = [written EXCEPT ![s] =
                  Append(@, [rec |-> recIdx[s], path |-> step.path,
                             text |-> step.text, whole |-> TRUE])]
    /\ trace' = Append(trace, Ev(s, "write"))
    /\ recIdx' = [recIdx EXCEPT ![s] = @ + 1]
    /\ pc' = [pc EXCEPT ![s] = IF recIdx[s] = Len(media[s]) THEN "respond" ELSE "loop"]
    /\ UNCHANGED <<req, outbound, upstream, fetchErr, media, resp, debug,
                   keyVars, fetchVars, configVars>>

\* A Jellyfin event arrives; the handler runs to its os.WriteFile and
\* opens the file, or answers an event it does not write.
JellyfinOpen(s) ==
    /\ pc[s] = "idle"
    /\ \E r \in PairJellyfinRequests :
         LET h == jellyfinHandle(r, "ok", "ok")
         IN  IF Wrote(h)
             THEN /\ req' = [req EXCEPT ![s] = [r EXCEPT !.source = "jellyfin"]]
                  /\ files' = OpenFile(files, h.path)
                  /\ pc' = [pc EXCEPT ![s] = "jwrite"]
                  /\ trace' = Append(trace, Ev(s, "recv"))
                  /\ UNCHANGED <<outbound, upstream, fetchErr, media, recIdx, io,
                                 written, resp, debug, logs,
                                 keyVars, fetchVars, configVars>>
             ELSE JellyfinEnter(s, r, "ok", "ok", <<>>)

\* os.WriteFile of slot s writes the descriptor and returns; the handler
\* answers 200 OK.
JellyfinWrite(s) ==
    /\ pc[s] = "jwrite"
    /\ LET h == jellyfinHandle(req[s], "ok", "ok")
       IN  /\ files' = WriteAt(files, h.path, h.text)
           /\ io' = [io EXCEPT ![s] = <<h.what>>]
           /\ logs' = Logged(s, jellyfinHandleLog(h))
           /\ written' = [written EXCEPT ![s] =
                  Append(@, [rec |-> 1, path |-> h.path,
                             text |-> h.text, whole |-> TRUE])]
           /\ resp' = [resp EXCEPT ![s] = h.resp]
    /\ trace' = trace \o <<Ev(s, "write"), Ev(s, "resp")>>
    /\ pc' = [pc EXCEPT ![s] = "done"]
    /\ UNCHANGED <<req, outbound, upstream, fetchErr, media, recIdx, debug,
                   keyVars, fetchVars, configVars>>

PairNext ==
    \E s \in Slots :
        \/ PairPlexArrive(s)
        \/ PairHistory(s)
        \/ PlexOpenRecord(s)
        \/ PlexWriteRecord(s)
        \/ PlexRespond(s)
        \/ JellyfinOpen(s)
        \/ JellyfinWrite(s)

SpecPair == Init /\ [][PairNext]_vars

(***************************************************************************)
(* Properties.                                                             *)
(***************************************************************************)
Done(s) == pc[s] = "done"

\* The record loop of slot s ran over every record and the handler answered.
LoopDone(s) == Done(s) /\ media[s] # <<>> /\ Len(io[s]) = Len(media[s])

\* The writes slot s made for record i of its mediaData.
WritesOf(s, i) == {j \in 1..Len(written[s]) : written[s][j].rec = i}

\* Record i of slot s was written out whole.
Persisted(s, i) == \E j \in WritesOf(s, i) : written[s][j].whole

\* A file operation failed on record i of slot s.
IoFailed(s, i) == io[s][i] \in {"mkdir", "openfail", "partial"}

\* A json.Number that is empty (null or missing upstream) or an integer.
EmptyOrInteger(n) == ~n.set \/ ~n.dot

\* The integer a season or episode index stands for, 0 when it is empty.
IndexOrZero(n) == IF n.set THEN n.ip ELSE 0

\* C1: in the Plex handler every history record the upstream returned is
\* persisted as a descriptor file when its watched_status is 1.0 or more and
\* is not persisted when it is below 1.0.  (Read with the file operations
\* succeeding and with indices that are integers or absent.)
C1_PersistedIffWatched ==
    \A s \in Slots : LoopDone(s) =>
        \A i \in 1..Len(media[s]) :
            /\ media[s][i].WatchedStatus < 1000 => ~Persisted(s, i)
            /\ ( /\ media[s][i].WatchedStatus >= 1000
                 /\ EmptyOrInteger(media[s][i].ParentMediaIndex)
                 /\ EmptyOrInteger(media[s][i].MediaIndex)
                 /\ ~IoFailed(s, i) ) => Persisted(s, i)

\* C2: for a Plex media.stop event, every complete upstream record with
\* integer indices whose file operations succeed is written exactly once, to
\* OutputDir/<full_title> - S<parent_media_index>E<media_index>.json with the
\* integers unpadded; the text written is that record, field by field; the
\* response is 200 OK; and when the record is the only one, the file holds
\* that text when the handler is through.
C2_CompleteRecordWritten ==
    \A s \in Slots : LoopDone(s) =>
        /\ req[s].event = "media.stop"
        /\ resp[s] = Response(200, "OK")
        /\ \A i \in 1..Len(media[s]) :
             LET d    == media[s][i]
                 path == <<OutputDir, "/", d.FullTitle, " - S",
                           ToString(d.ParentMediaIndex.ip), "E",
                           ToString(d.MediaIndex.ip), ".json">>
             IN  ( /\ d.WatchedStatus >= 1000
                   /\ d.ParentMediaIndex.set /\ ~d.ParentMediaIndex.dot
                   /\ d.MediaIndex.set /\ ~d.MediaIndex.dot
                   /\ io[s][i] = "ok" ) =>
                 /\ Cardinality(WritesOf(s, i)) = 1
                 /\ \A j \in WritesOf(s, i) :
                      /\ written[s][j].path = path
                      /\ written[s][j].whole
                      /\ written[s][j].text.full_title = d.FullTitle
                      /\ written[s][j].text.parent_media_index.ip = d.ParentMediaIndex.ip
                      /\ written[s][j].text.media_index.ip = d.MediaIndex.ip
                      /\ written[s][j].text.watched_status = d.WatchedStatus
                      /\ written[s][j].text.percent_complete = d.PercentComplete
                      /\ Len(media[s]) = 1 =>
                            /\ path \in DOMAIN files
                            /\ files[path] = File(written[s][j].text, TRUE)
                            /\ Len(written[s]) = 1

\* Scenario A: Show, season 1, episode 2, watched_status 1.0, 98 percent is
\* in "Show - S1E2.json" when the handler has answered 200.
C2_Witness ==
    /\ Done(1)
    /\ resp[1] = Response(200, "OK")
    /\ Len(media[1]) = 1
    /\ <<OutputDir, "/", "Show", " - S", "1", "E", "2", ".json">> \in DOMAIN files
    /\ files[<<OutputDir, "/", "Show", " - S", "1", "E", "2", ".json">>] =
         File([full_title         |-> "Show",
               parent_media_index |-> [ip |-> 1, fr |-> 0, dot |-> FALSE],
               media_index        |-> [ip |-> 2, fr |-> 0, dot |-> FALSE],
               watched_status     |-> 1000,
               percent_complete   |-> 98], TRUE)
    /\ Len(written[1]) = 1

\* C3: a record whose parent_media_index or media_index is null or missing
\* is accepted with that index read as 0: when its watched_status is 1.0 or
\* more (and no file operation fails) it is written, with 0 for the absent
\* index in the file name.
C3_AbsentIndexIsZero ==
    \A s \in Slots : LoopDone(s) =>
        \A i \in 1..Len(media[s]) :
            LET d == media[s][i]
            IN  ( /\ ~d.ParentMediaIndex.set \/ ~d.MediaIndex.set
                  /\ EmptyOrInteger(d.ParentMediaIndex)
                  /\ EmptyOrInteger(d.MediaIndex)
                  /\ d.WatchedStatus >= 1000
                  /\ ~IoFailed(s, i) ) =>
                \E j \in WritesOf(s, i) :
                    written[s][j].path =
                        <<OutputDir, "/", d.FullTitle, " - S",
                          ToString(IndexOrZero(d.ParentMediaIndex)), "E",
                          ToString(IndexOrZero(d.MediaIndex)), ".json">>

\* The body described by d with every empty string of a numeric field
\* replaced by the number 0.
ZeroTwin(d) ==
    [d EXCEPT !.recs =
        [r \in DOMAIN d.recs |->
            [n \in DOMAIN d.recs[r] |->
                IF d.recs[r][n].k \in NumericNames /\ d.recs[r][n].v = Str("")
                THEN [k |-> d.recs[r][n].k, v |-> Num(0, 0, FALSE)]
                ELSE d.recs[r][n]]]]

HasEmptyNumeric(d) ==
    \E r \in DOMAIN d.recs : \E n \in DOMAIN d.recs[r] :
        d.recs[r][n].k \in NumericNames /\ d.recs[r][n].v = Str("")

\* Every value of the body fits its field, or is an empty string in a
\* numeric field, and the envelope is whole.
FitsButForEmpty(d) ==
    /\ d.env = "list"
    /\ \A r \in DOMAIN d.recs : \A n \in DOMAIN d.recs[r] :
         LET f == d.recs[r][n]
         IN  \/ f.v.t = "null"
             \/ f.k \in NumericNames /\ f.v = Str("")
             \/ f.k = "full_title" /\ f.v.t = "str"
             \/ f.k \in {"parent_media_index", "media_index"} /\ f.v.num
             \/ f.k = "watched_status" /\ f.v.t = "num"
             \/ f.k = "percent_complete" /\ f.v.t = "num" /\ ~f.v.dot

\* The value the last field named k of record fields fs carries, if any.
LastValue(fs, k) ==
    LET at == {n \in DOMAIN fs : fs[n].k = k}
    IN  IF at = {} THEN Absent ELSE fs[SetMax(at)].v

\* Field k of the decoded record rec is the zero of its type.
IsZeroField(rec, k) ==
    CASE k = "parent_media_index" ->
           rec.ParentMediaIndex = [set |-> TRUE, ip |-> 0, fr |-> 0, dot |-> FALSE]
      [] k = "media_index" ->
           rec.MediaIndex = [set |-> TRUE, ip |-> 0, fr |-> 0, dot |-> FALSE]
      [] k = "watched_status" -> rec.WatchedStatus = 0
      [] k = "percent_complete" -> rec.PercentComplete = 0

\* C4: a body in which parent_media_index, media_index, watched_status or
\* percent_complete is the empty string, with any whitespace around the
\* colon and in any field order, decodes to what the same body with 0 in
\* that place decodes to; when nothing else is wrong with the body it
\* decodes without error, and a field whose last value is the empty string
\* decodes to zero.
C4_EmptyStringDecodesAsZero ==
    (fDone /\ HasEmptyNumeric(fDesc)) =>
        /\ fResult = decodeBody(Render(ZeroTwin(fDesc)))
        /\ FitsButForEmpty(fDesc) =>
             /\ ~fResult.err
             /\ Len(fResult.recs) = Len(fDesc.recs)
             /\ \A r \in DOMAIN fDesc.recs : \A k \in NumericNames :
                  LastValue(fDesc.recs[r], k) = Str("") => IsZeroField(fResult.recs[r], k)

\* Scenario C: "parent_media_index" : "" with whitespace on both sides of
\* the colon decodes, without error, to season index 0.
C4_Witness ==
    /\ fDone
    /\ fDesc.w1 > 0 /\ fDesc.w2 > 0
    /\ Len(fDesc.recs) = 1
    /\ LastValue(fDesc.recs[1], "parent_media_index") = Str("")
    /\ LastValue(fDesc.recs[1], "percent_complete") = Str("")
    /\ ~fResult.err
    /\ Len(fResult.recs) = 1
    /\ Int64Ok(fResult.recs[1].ParentMediaIndex)
    /\ Int64Val(fResult.recs[1].ParentMediaIndex) = 0
    /\ fResult.recs[1].PercentComplete = 0

\* C5: for every path that ends in the marker /library/metadata/ followed by
\* a non-empty run of decimal digits, extractKeyFromPath returns exactly
\* that run of digits.
C5_MarkerDigitsReturned ==
    kDone =>
        \A i \in Len(Marker)..Len(kPath) :
            ( /\ SubSeq(kPath, i - Len(Marker) + 1, i) = Marker
              /\ IsDigitRun(SliceFrom(kPath, i)) ) => kKey = SliceFrom(kPath, i)

\* The marker is in the path and what follows its first occurrence is a
\* non-empty run of decimal digits.
YieldsThroughMarker(path) ==
    /\ StringsIndex(path, Marker) # -1
    /\ IsDigitRun(SliceFrom(path, StringsIndex(path, Marker) + Len(Marker)))

\* C6: for every path that yields no key through the marker,
\* extractKeyFromPath returns what follows the last slash when that is a
\* non-empty run of decimal digits, and no key when the path has no slash or
\* what follows the last slash is not such a run.
C6_FallbackTrailingDigits ==
    (kDone /\ ~YieldsThroughMarker(kPath)) =>
        LET lastSlash == StringsLastIndex(kPath, <<"/">>)
            trailing  == SliceFrom(kPath, lastSlash + 1)
        IN  IF lastSlash # -1 /\ IsDigitRun(trailing)
            THEN kKey = trailing
            ELSE kKey = <<>>

\* C7: a key extractKeyFromPath returns is a non-empty run of the decimal
\* digits 0-9, without a sign or any other character.
C7_KeyIsDigitsOnly == (kDone /\ kKey # <<>>) => IsDigitRun(kKey)

\* C8: when no key can be extracted from Metadata.key of a media.stop event
\* (the path is empty, has no slash, or ends in a segment that is no
\* number), fetchMetadata returns no record and no error, no history request
\* is issued, nothing is written and the answer is 200 OK.
C8_NoKeyIsNotAnError ==
    \A s \in Slots :
        ( /\ pc[s] # "idle"
          /\ req[s].method = "POST" /\ req[s].form = "ok" /\ req[s].payload = "event"
          /\ req[s].event = "media.stop"
          /\ extractKeyFromPath(PathOf(req[s].key)) = <<>> ) =>
        /\ Done(s)
        /\ outbound[s] = <<>>
        /\ fetchErr[s] = NoErr
        /\ media[s] = <<>>
        /\ written[s] = <<>>
        /\ resp[s] = Response(200, "OK")

\* A media.stop event whose Metadata.key ends in a segment that is no number
\* has been answered.
C8_Witness ==
    /\ Done(1)
    /\ req[1] = PlexReq("POST", "ok", "event", "media.stop", <<"/", "a">>)
    /\ resp[1] = Response(200, "OK")
    /\ outbound[1] = <<>>

\* The history call of slot s has returned.
Replied(s) == upstream[s] # NoReply

Success2xx(status) == status >= 200 /\ status <= 299

\* C9: when the history call fails by transport error, by a non-success
\* status, or because the body does not decode after normalization,
\* fetchMetadata returns an error, the handler answers 500 and the request
\* creates or modifies no file.
C9_UpstreamFailureIs500 ==
    \A s \in Slots :
        ( /\ Replied(s)
          /\ \/ upstream[s].transport = "error"
             \/ ~Success2xx(upstream[s].status)
             \/ decodeBody(Render(upstream[s].desc)).err ) =>
        /\ fetchErr[s] # NoErr
        /\ Done(s)
        /\ resp[s].status = 500
        /\ resp[s].body # "OK"
        /\ written[s] = <<>>
        /\ files \in InitialFiles

\* Scenario D: a truncated body under status 200 has been answered 500.
C9_Witness ==
    /\ Done(1)
    /\ upstream[1].transport = "ok"
    /\ upstream[1].status = 200
    /\ upstream[1].desc.env = "truncated"
    /\ Len(upstream[1].desc.recs) = 1
    /\ resp[1].status = 500

\* C10 as claimed: fetchMetadata fails with a status error carrying the
\* status code if and only if the upstream status is not 2xx, and a 2xx
\* response with a decodable body is a success whose records are returned.
C10_StatusErrorIffNot2xx ==
    \A s \in Slots :
        (Replied(s) /\ upstream[s].transport = "ok") =>
        /\ fetchErr[s] = Err("status", upstream[s].status) <=> ~Success2xx(upstream[s].status)
        /\ ( /\ Success2xx(upstream[s].status)
             /\ upstream[s].read = "ok"
             /\ ~decodeBody(Render(upstream[s].desc)).err ) =>
           /\ fetchErr[s] = NoErr
           /\ media[s] = decodeBody(Render(upstream[s].desc)).recs

\* C10 as amended: fetchMetadata fails with a status error carrying the
\* status code if and only if the upstream status is not 200, and a 200
\* response with a decodable body is a success whose records are returned.
C10_StatusErrorIffNot200 ==
    \A s \in Slots :
        (Replied(s) /\ upstream[s].transport = "ok") =>
        /\ fetchErr[s] = Err("status", upstream[s].status) <=> upstream[s].status # 200
        /\ fetchErr[s].kind = "status" => fetchErr[s].code = upstream[s].status
        /\ ( /\ upstream[s].status = 200
             /\ upstream[s].read = "ok"
             /\ ~decodeBody(Render(upstream[s].desc)).err ) =>
           /\ fetchErr[s] = NoErr
           /\ media[s] = decodeBody(Render(upstream[s].desc)).recs

\* Status 201 with a decodable body has come back as a status error.
C10_Witness ==
    /\ Replied(1)
    /\ upstream[1].status = 201
    /\ Len(upstream[1].desc.recs) = 1
    /\ ~decodeBody(Render(upstream[1].desc)).err
    /\ fetchErr[1] = Err("status", 201)
    /\ resp[1].status = 500

\* C11: no operation is retried: whatever the outcome of a request
\* (transport error, non-success status, decode error, empty history or
\* success), at most one history request is issued for it; a request whose
\* history call has returned issued exactly one, and a Jellyfin request
\* issues none.
C11_AtMostOneHistoryRequest ==
    \A s \in Slots :
        /\ Len(outbound[s]) <= 1
        /\ Replied(s) => Len(outbound[s]) = 1
        /\ req[s].source = "jellyfin" => outbound[s] = <<>>

\* A request whose history call failed in transport has been answered after
\* one history request.
C11_Witness ==
    /\ Done(1)
    /\ fetchErr[1] = Err("transport", 0)
    /\ resp[1].status = 500
    /\ Len(outbound[1]) = 1

\* Slot s holds a Jellyfin event that was read and parsed and has been
\* answered.
JellyfinParsed(s) ==
    /\ Done(s)
    /\ req[s].source = "jellyfin"
    /\ req[s].method = "POST"
    /\ req[s].form = ""
    /\ req[s].payload = "event"

\* The event of slot s is a stop event: either field says so.
IsStopEvent(s) ==
    req[s].jf.Event = "playback.stop" \/ req[s].jf.NotificationType = "PlaybackStop"

\* C12: a Jellyfin stop event with ItemType Episode, a non-empty SeriesName
\* and PlayedToCompletion = true writes (when no file operation fails) the
\* one file OutputDir/<SeriesName> - S<SeasonNumber>E<EpisodeNumber>.json,
\* whose descriptor has percent_complete 100 and watched_status 1.0, and the
\* response is 200 OK.
C12_JellyfinEpisodeWritten ==
    \A s \in Slots :
        ( /\ JellyfinParsed(s)
          /\ IsStopEvent(s)
          /\ req[s].jf.ItemType = "Episode"
          /\ req[s].jf.SeriesName # ""
          /\ req[s].jf.PlayedToCompletion
          /\ ~IoFailed(s, 1) ) =>
        LET path == filepathJoin(OutputDir,
                                 <<req[s].jf.SeriesName, " - S",
                                   ToString(req[s].jf.SeasonNumber), "E",
                                   ToString(req[s].jf.EpisodeNumber), ".json">>)
        IN  /\ resp[s] = Response(200, "OK")
            /\ Len(written[s]) = 1
            /\ written[s][1].path = path
            /\ written[s][1].whole
            /\ written[s][1].text.percent_complete = 100
            /\ written[s][1].text.watched_status = 1000
            /\ path \in DOMAIN files
            /\ files[path] = File(written[s][1].text, TRUE)

\* Scenario B: Test Series, season 1, episode 2 is in
\* "Test Series - S1E2.json" with percent_complete 100.
C12_Witness ==
    /\ Done(1)
    /\ req[1] = JellyfinReq("POST", "event",
                    JellyfinPayload("playback.stop", "PlaybackStop", "Episode", TRUE,
                                    "Test Title", "Test Series", 1, 2))
    /\ resp[1] = Response(200, "OK")
    /\ <<OutputDir, "/", "Test Series", " - S", "1", "E", "2", ".json">> \in DOMAIN files
    /\ files[<<OutputDir, "/", "Test Series", " - S", "1", "E", "2", ".json">>].whole
    /\ files[<<OutputDir, "/", "Test Series", " - S", "1", "E", "2", ".json">>].text.percent_complete = 100

\* The content written by slot s is episode-like: a Plex record, or a
\* Jellyfin Episode item with a non-empty series name.
EpisodeLike(s) ==
    \/ req[s].source = "plex"
    \/ /\ req[s].source = "jellyfin"
       /\ req[s].jf.ItemType = "Episode"
       /\ req[s].jf.SeriesName # ""

\* C13: every descriptor file written for episode-like content is named
\* <FullTitle> - S<season>E<episode>.json, where FullTitle, season and
\* episode are the full_title, parent_media_index and media_index stored in
\* that descriptor, as integers without padding.
C13_FilenameFromDescriptor ==
    \A s \in Slots : EpisodeLike(s) =>
        \A j \in 1..Len(written[s]) :
            written[s][j].path =
                <<OutputDir, "/", written[s][j].text.full_title, " - S",
                  ToString(written[s][j].text.parent_media_index.ip), "E",
                  ToString(written[s][j].text.media_index.ip), ".json">>

\* Slot s holds a Jellyfin stop event that was played to completion.
JellyfinCompleted(s) ==
    JellyfinParsed(s) /\ IsStopEvent(s) /\ req[s].jf.PlayedToCompletion

\* C14: a Jellyfin stop event with ItemType Movie and PlayedToCompletion =
\* true writes (when no file operation fails) the one file
\* OutputDir/<Title>.json, without season or episode suffix, whose
\* descriptor has full_title = Title, season and episode index 0,
\* watched_status 1.0 and percent_complete 100, and the response is 200 OK.
C14_JellyfinMovieWritten ==
    \A s \in Slots :
        ( /\ JellyfinCompleted(s)
          /\ req[s].jf.ItemType = "Movie"
          /\ ~IoFailed(s, 1) ) =>
        LET path == filepathJoin(OutputDir, <<req[s].jf.Title, ".json">>)
        IN  /\ resp[s] = Response(200, "OK")
            /\ Len(written[s]) = 1
            /\ written[s][1].path = path
            /\ written[s][1].whole
            /\ written[s][1].text =
                 [full_title         |-> req[s].jf.Title,
                  parent_media_index |-> [ip |-> 0, fr |-> 0, dot |-> FALSE],
                  media_index        |-> [ip |-> 0, fr |-> 0, dot |-> FALSE],
                  watched_status     |-> 1000,
                  percent_complete   |-> 100]
            /\ path \in DOMAIN files
            /\ files[path] = File(written[s][1].text, TRUE)

\* The movie Test Title is in "Test Title.json".
C14_Witness ==
    /\ Done(1)
    /\ req[1].source = "jellyfin"
    /\ req[1].jf.ItemType = "Movie"
    /\ req[1].jf.Title = "Test Title"
    /\ req[1].jf.SeriesName = ""
    /\ resp[1] = Response(200, "OK")
    /\ <<OutputDir, "/", "Test Title", ".json">> \in DOMAIN files
    /\ files[<<OutputDir, "/", "Test Title", ".json">>].text.full_title = "Test Title"
    /\ files[<<OutputDir, "/", "Test Title", ".json">>].whole

\* The item of slot s is one the handler writes.
SupportedItem(s) ==
    \/ req[s].jf.ItemType = "Movie"
    \/ req[s].jf.ItemType = "Episode" /\ req[s].jf.SeriesName # ""

\* C15: a completed Jellyfin stop event whose item is unsupported (no
\* Movie, and no Episode with a non-empty series name; an Episode with an
\* empty SeriesName is unsupported) writes no file and is answered 200 OK.
C15_UnsupportedItemIgnored ==
    \A s \in Slots :
        (JellyfinCompleted(s) /\ ~SupportedItem(s)) =>
        /\ resp[s] = Response(200, "OK")
        /\ written[s] = <<>>
        /\ files \in InitialFiles

\* A completed Episode without a series name has been answered.
C15_Witness ==
    /\ JellyfinCompleted(1)
    /\ req[1].jf.ItemType = "Episode"
    /\ req[1].jf.SeriesName = ""
    /\ resp[1] = Response(200, "OK")
    /\ written[1] = <<>>

\* C16: a Jellyfin event with Event # playback.stop and NotificationType #
\* PlaybackStop is answered 200 OK and ignored, nothing being written; an
\* event in which either field matches passes the event filter: it is
\* handled as its completion flag and item say, and when it is a completed
\* supported item whose file operations succeed, it is written.
C16_EventFilter ==
    \A s \in Slots : JellyfinParsed(s) =>
        /\ ~IsStopEvent(s) =>
             /\ io[s] = <<"ignored">>
             /\ resp[s] = Response(200, "OK")
             /\ written[s] = <<>>
             /\ files \in InitialFiles
        /\ IsStopEvent(s) =>
             /\ io[s] # <<"ignored">>
             /\ ~req[s].jf.PlayedToCompletion => io[s] = <<"incomplete">>
             /\ (req[s].jf.PlayedToCompletion /\ ~SupportedItem(s)) => io[s] = <<"unsupported">>
             /\ (req[s].jf.PlayedToCompletion /\ SupportedItem(s) /\ ~IoFailed(s, 1)) =>
                    Len(written[s]) = 1 /\ written[s][1].whole

\* An event named playback.start whose NotificationType is PlaybackStop has
\* passed the filter and its movie has been written.
C16_Witness ==
    /\ JellyfinParsed(1)
    /\ req[1].jf.Event = "playback.start"
    /\ req[1].jf.NotificationType = "PlaybackStop"
    /\ req[1].jf.PlayedToCompletion
    /\ req[1].jf.ItemType = "Movie"
    /\ Len(written[1]) = 1
    /\ resp[1] = Response(200, "OK")

\* Slot s holds a Plex event that was parsed and has been answered.
PlexParsed(s) ==
    /\ Done(s)
    /\ req[s].source = "plex"
    /\ req[s].method = "POST"
    /\ req[s].form = "ok"
    /\ req[s].payload = "event"

\* The request of slot s wrote nothing and left every file as it was.
NoFileTouched(s) == written[s] = <<>> /\ files \in InitialFiles

\* C17: events that are valid but ignored are answered 200 with body OK and
\* write no file: a Plex event other than media.stop or with an empty
\* Metadata.key (no history request either), a Plex event for which the
\* upstream returns no record, a Plex record that is not complete, and a
\* Jellyfin stop event with PlayedToCompletion = false, its other fields
\* being valid.
C17_IgnoredEventsAre200 ==
    \A s \in Slots :
        /\ (PlexParsed(s) /\ (req[s].event # "media.stop" \/ PathOf(req[s].key) = <<>>)) =>
             /\ resp[s] = Response(200, "OK")
             /\ outbound[s] = <<>>
             /\ NoFileTouched(s)
        /\ (PlexParsed(s) /\ Replied(s) /\ fetchErr[s] = NoErr /\ media[s] = <<>>) =>
             /\ resp[s] = Response(200, "OK")
             /\ NoFileTouched(s)
        /\ (PlexParsed(s) /\ media[s] # <<>>) =>
             /\ resp[s] = Response(200, "OK")
             /\ \A i \in 1..Len(media[s]) :
                  media[s][i].WatchedStatus < 1000 => WritesOf(s, i) = {}
             /\ (\A i \in 1..Len(media[s]) : media[s][i].WatchedStatus < 1000) =>
                  NoFileTouched(s)
        /\ (JellyfinParsed(s) /\ IsStopEvent(s) /\ ~req[s].jf.PlayedToCompletion) =>
             /\ resp[s] = Response(200, "OK")
             /\ NoFileTouched(s)

\* A Plex request whose one record has watched_status 0.999 has been
\* answered 200 OK without a write.
C17_Witness ==
    /\ PlexParsed(1)
    /\ Len(media[1]) = 1
    /\ media[1][1].WatchedStatus = 999
    /\ resp[1] = Response(200, "OK")
    /\ NoFileTouched(1)

\* The request of slot s is a client input error: a body that is no
\* multipart form, a missing or empty payload field, or a Plex payload or
\* Jellyfin body that is no JSON.
ClientInputError(s) ==
    /\ pc[s] # "idle"
    /\ req[s].method = "POST"
    /\ \/ /\ req[s].source = "plex"
          /\ req[s].form # "ok" \/ req[s].payload \in {"missing", "badjson"}
       \/ /\ req[s].source = "jellyfin"
          /\ req[s].payload = "badjson" \/ req[s].form # ""

\* C18: client input errors are answered 400 and have no side effect: no
\* history request is issued and no file is created or modified.
C18_ClientErrorIs400 ==
    \A s \in Slots : ClientInputError(s) =>
        /\ Done(s)
        /\ resp[s].status = 400
        /\ outbound[s] = <<>>
        /\ upstream[s] = NoReply
        /\ NoFileTouched(s)

\* A Jellyfin body that is no JSON has been answered 400.
C18_Witness ==
    /\ Done(1)
    /\ req[1] = JellyfinReq("POST", "badjson", ZeroJellyfinPayload)
    /\ resp[1] = Response(400, "Error parsing payload")
    /\ NoFileTouched(1)

\* Record i of slot s is complete and its indices convert.
CompleteRecord(s, i) ==
    /\ media[s][i].WatchedStatus >= 1000
    /\ Int64Ok(media[s][i].ParentMediaIndex)
    /\ Int64Ok(media[s][i].MediaIndex)

\* C19: in the Plex handler a failure on one record (index conversion,
\* directory creation or file write) skips that record only: the loop runs
\* over every record of the response, and every complete record whose own
\* file operations succeed is written, whatever happened to the records
\* before and after it.
C19_SiblingsStillWritten ==
    \A s \in Slots :
        (Done(s) /\ req[s].source = "plex" /\ media[s] # <<>>) =>
        /\ Len(io[s]) = Len(media[s])
        /\ \A i \in 1..Len(media[s]) :
             (CompleteRecord(s, i) /\ ~IoFailed(s, i)) =>
                 /\ Cardinality(WritesOf(s, i)) = 1
                 /\ Persisted(s, i)

\* Of two records the first failed at the directory and the second was
\* written.
C19_Witness ==
    /\ Done(1)
    /\ Len(media[1]) = 2
    /\ io[1] = <<"mkdir", "ok">>
    /\ Persisted(1, 2)
    /\ ~Persisted(1, 1)

\* A file operation of slot s failed.
SomeIoFailed(s) == \E i \in 1..Len(io[s]) : IoFailed(s, i)

\* C20 as claimed: in both handlers a failure to create the output
\* directory or to write a descriptor file skips the record, and the
\* request is still answered 200 OK.
C20_IoFailureIs200 ==
    \A s \in Slots : (Done(s) /\ SomeIoFailed(s)) => resp[s] = Response(200, "OK")

\* C20 as amended: in the Plex handler a failure to create the output
\* directory or to write a descriptor file skips the record, the loop goes
\* on and the request is answered 200 OK; in the Jellyfin handler the same
\* failure ends the request, which is answered 500.
C20_IoFailurePlex200Jellyfin500 ==
    \A s \in Slots : (Done(s) /\ SomeIoFailed(s)) =>
        /\ req[s].source = "plex" =>
             /\ resp[s] = Response(200, "OK")
             /\ Len(io[s]) = Len(media[s])
             /\ \A i \in 1..Len(io[s]) : IoFailed(s, i) => ~Persisted(s, i)
        /\ req[s].source = "jellyfin" =>
             /\ resp[s].status = 500
             /\ resp[s].body # "OK"
             /\ ~Persisted(s, 1)

\* A completed Jellyfin episode whose file could not be written has been
\* answered 500.
C20_Witness ==
    /\ JellyfinCompleted(1)
    /\ req[1].jf.ItemType = "Episode"
    /\ req[1].jf.SeriesName = "Test Series"
    /\ io[1] = <<"openfail">>
    /\ resp[1] = Response(500, "Error writing file")

\* The request of slot s names multipart/form-data in its Content-Type.
Multipart(s) == Contains(req[s].ctype, "multipart/form-data")

\* The request of slot s names application/json in its Content-Type.
Json(s) == Contains(req[s].ctype, "application/json")

\* The request of slot s had no effect beyond its response.
Untouched(s) == outbound[s] = <<>> /\ NoFileTouched(s)

\* The request of slot s was turned away with this status before it reached
\* a webhook handler, and had no effect.
TurnedAway(s, status) ==
    req[s].source = "none" /\ resp[s].status = status /\ Untouched(s)

KnownRoutes == {<<"">>, <<"plex">>, <<"jellyfin">>}

\* C21 as stated: /plex is served by the Plex handler and /jellyfin by the
\* Jellyfin handler; on "/" a Content-Type containing multipart/form-data
\* is served by the Plex handler, one containing application/json by the
\* Jellyfin handler, any other is answered 400; every other path is
\* answered 404 with no side effects.
C21_EveryOtherPathIs404 ==
    \A s \in Slots : Done(s) =>
        /\ req[s].path = <<"plex">> => req[s].source = "plex"
        /\ req[s].path = <<"jellyfin">> => req[s].source = "jellyfin"
        /\ req[s].path = <<"">> =>
             /\ Multipart(s) => req[s].source = "plex"
             /\ Json(s) => req[s].source = "jellyfin"
             /\ (~Multipart(s) /\ ~Json(s)) => TurnedAway(s, 400)
        /\ req[s].path \notin KnownRoutes => TurnedAway(s, 404)

\* C21, amended: each request is served by at most one handler.  /plex is
\* served by the Plex handler and /jellyfin by the Jellyfin handler; on "/"
\* a Content-Type containing multipart/form-data is served by the Plex
\* handler (whether or not it also contains application/json), one that
\* contains application/json and not multipart/form-data by the Jellyfin
\* handler, any other is answered 400 with no side effects; every other
\* clean path is answered 404 and every path that is not clean (an empty,
\* "." or ".." segment) is answered 301, both with no side effects.
C21_Routing ==
    \A s \in Slots : Done(s) =>
        /\ req[s].source \in {"plex", "jellyfin", "none"}
        /\ req[s].source = "jellyfin" => outbound[s] = <<>>
        /\ req[s].source = "plex" => logs[s] \notin
               {<<"Detected Jellyfin webhook based on Content-Type">> \o l :
                    l \in {<<>>, <<"Ignoring Jellyfin event">>}}
        /\ req[s].path = <<"plex">> => req[s].source = "plex"
        /\ req[s].path = <<"jellyfin">> => req[s].source = "jellyfin"
        /\ req[s].path = <<"">> =>
             /\ Multipart(s) => req[s].source = "plex"
             /\ (Json(s) /\ ~Multipart(s)) => req[s].source = "jellyfin"
             /\ (~Multipart(s) /\ ~Json(s)) => TurnedAway(s, 400)
        /\ (req[s].path \notin KnownRoutes /\ IsCleanPath(req[s].path)) =>
               TurnedAway(s, 404)
        /\ ~IsCleanPath(req[s].path) => TurnedAway(s, 301)

\* A request sent to "/" whose Content-Type names both media types has been
\* served by the Plex handler, and one sent to "//plex" has been redirected.
C21_Witness ==
    /\ Done(1)
    /\ req[1].method = "POST"
    /\ req[1].path = <<"">>
    /\ Multipart(1) /\ Json(1)
    /\ req[1].source = "plex"
    /\ resp[1] = Response(200, "OK")
    /\ logs[1] = <<"Detected Plex webhook based on Content-Type", "Ignoring Plex event">>

\* C22 as stated: a request with a method other than POST to "/", "/plex"
\* or "/jellyfin" is answered 405, whatever its headers and body, and has
\* no side effects.
C22_NonPostIs405 ==
    \A s \in Slots :
        (Done(s) /\ req[s].method # "POST" /\ req[s].path \in KnownRoutes) =>
            /\ resp[s].status = 405
            /\ Untouched(s)

\* C28: handling a Jellyfin request never issues a history request, whatever
\* the payload and the outcome, and the descriptor it writes is built from
\* the fields of the event alone.
C28_JellyfinAsksNobody ==
    \A s \in Slots : req[s].source = "jellyfin" =>
        /\ outbound[s] = <<>>
        /\ upstream[s] = NoReply
        /\ fetchErr[s] = NoErr
        /\ media[s] = <<>>
        /\ \A i \in 1..Len(written[s]) :
             written[s][i].text =
                 IF req[s].jf.ItemType = "Episode"
                 THEN [full_title         |-> req[s].jf.SeriesName \o " - " \o req[s].jf.Title,
                       parent_media_index |-> EncodeNumber(Itoa(req[s].jf.SeasonNumber)),
                       media_index        |-> EncodeNumber(Itoa(req[s].jf.EpisodeNumber)),
                       watched_status     |-> 1000,
                       percent_complete   |-> 100]
                 ELSE [full_title         |-> req[s].jf.Title,
                       parent_media_index |-> EncodeNumber(Itoa(0)),
                       media_index        |-> EncodeNumber(Itoa(0)),
                       watched_status     |-> 1000,
                       percent_complete   |-> 100]

\* A Jellyfin movie has been written without any history request.
C28_Witness ==
    /\ Done(1)
    /\ req[1].source = "jellyfin"
    /\ req[1].jf.ItemType = "Movie"
    /\ Len(written[1]) = 1
    /\ written[1][1].whole
    /\ outbound[1] = <<>>
    /\ resp[1] = Response(200, "OK")

\* C29: every descriptor the relay writes holds watched_status >= 1.0; one
\* written from a Jellyfin event holds watched_status = 1.0 and
\* percent_complete = 100, one written from a Plex record holds the
\* percent_complete of that record of the history response.
C29_WrittenMeansWatched ==
    \A s \in Slots : \A i \in 1..Len(written[s]) :
        LET w == written[s][i]
        IN  /\ w.text.watched_status >= 1000
            /\ w.path \in DOMAIN files
            /\ files[w.path].whole => files[w.path].text.watched_status >= 1000
            /\ req[s].source = "jellyfin" =>
                 /\ w.text.watched_status = 1000
                 /\ w.text.percent_complete = 100
            /\ req[s].source = "plex" =>
                 w.text.percent_complete = media[s][w.rec].PercentComplete

\* A Plex record watched in full at 40 percent has been written.
C29_Witness ==
    /\ Done(1)
    /\ req[1].source = "plex"
    /\ Len(written[1]) >= 1
    /\ written[1][1].whole
    /\ written[1][1].text.watched_status >= 1000
    /\ written[1][1].text.percent_complete = 40

\* Where in trace the events e of slot s stand.
EventsOf(s, e) == {i \in 1..Len(trace) : trace[i] = Ev(s, e)}

\* Slot s got one response, after its arrival and after every file write
\* made for it, and none before the handler was through.
OneResponseAfterWrites(s) ==
    /\ EventsOf(s, "recv") = {} <=> pc[s] = "idle"
    /\ Cardinality(EventsOf(s, "recv")) <= 1
    /\ Cardinality(EventsOf(s, "write")) = Len(written[s])
    /\ IF Done(s)
       THEN /\ Cardinality(EventsOf(s, "resp")) = 1
            /\ resp[s] # NoResponse
            /\ \A i \in EventsOf(s, "resp") :
                 \A j \in EventsOf(s, "recv") \cup EventsOf(s, "write") : j < i
       ELSE /\ EventsOf(s, "resp") = {}
            /\ resp[s] = NoResponse

\* The response of slot s, if any, has one of these statuses, and says OK
\* when the status is 200.
StatusAmong(s, statuses) ==
    Done(s) =>
        /\ resp[s].status \in statuses
        /\ resp[s].status = 200 => resp[s].body = "OK"

\* C30 as stated: every request gets exactly one response, with a status in
\* {200, 400, 404, 405, 500}, and 200 carries the body OK; if the history
\* call returns or fails, the handling of a request that arrived ends with
\* that response; every file write of the request precedes the response.
C30_StatusOneOfFive ==
    /\ [](\A s \in Slots :
            OneResponseAfterWrites(s) /\ StatusAmong(s, {200, 400, 404, 405, 500}))
    /\ \A s \in Slots : (pc[s] # "idle") ~> Done(s)

\* C30, amended: every request gets exactly one response, with a status in
\* {200, 301, 400, 404, 405, 500} (301 for a path that is not clean), and
\* 200 carries the body OK; if the history call returns or fails, the
\* handling of a request that arrived ends with that response; every file
\* write of the request precedes the response.
C30_OneResponse ==
    /\ [](\A s \in Slots :
            OneResponseAfterWrites(s) /\ StatusAmong(s, {200, 301, 400, 404, 405, 500}))
    /\ \A s \in Slots : (pc[s] # "idle") ~> Done(s)

\* A Plex request has written two files and then got its 200 OK.
C30_Witness ==
    /\ Done(1)
    /\ req[1].source = "plex"
    /\ Len(written[1]) = 2
    /\ trace = <<Ev(1, "recv"), Ev(1, "write"), Ev(1, "write"), Ev(1, "resp")>>
    /\ resp[1] = Response(200, "OK")

\* The path lies directly inside OutputDir: its directory is OutputDir and
\* its name holds no separator.
DirectlyInOutputDir(path) ==
    /\ path[1] = OutputDir
    /\ path[2] = "/"
    /\ Split(path[3]) = <<path[3]>>

\* C25 as stated: every file the relay creates or modifies lies directly
\* inside OUTPUT_DIR, whatever the title and the series name of the record
\* it is written for; no file outside OUTPUT_DIR or in a subdirectory of it
\* is ever written.
C25_FlatDirectory ==
    /\ \A q \in DOMAIN files : DirectlyInOutputDir(q)
    /\ \A s \in Slots : \A j \in 1..Len(written[s]) :
           DirectlyInOutputDir(written[s][j].path)

\* The port number 3333.
Port3333 == IntOf(FALSE, <<"3", "3", "3", "3">>)

\* C27: getEnv returns the value of a variable that is set and not empty,
\* and the default otherwise.  loadConfig yields Port 3333 when PORT is
\* unset, empty or no integer (as strconv.Atoi reads integers: an optional
\* sign and decimal digits, within the range of int) and the integer
\* otherwise; OutputDir "/output" when OUTPUT_DIR is unset or empty and its
\* value otherwise; Debug true exactly when DEBUG is "true"; APIHost and
\* APIKey equal to API_HOST and API_KEY (empty when unset).
C27_ConfigLoaded ==
    /\ \A k \in EnvNames : \A d \in {<<>>, <<"d">>} :
         getEnv(cEnv, k, d) =
             IF cEnv[k].set /\ cEnv[k].val # <<>> THEN cEnv[k].val ELSE d
    /\ cDone =>
         /\ cConfig.Port =
                IF cEnv["PORT"].set /\ AtoiOk(cEnv["PORT"].val)
                THEN AtoiVal(cEnv["PORT"].val) ELSE Port3333
         /\ cEnv["PORT"] \in {Unset, SetTo(<<>>), SetTo(<<"a", "b", "c">>),
                              SetTo(<<"8", "0", "a">>), SetTo(<<" ", "8", "0">>),
                              SetTo(<<"1", "e", "3">>), SetTo(<<"+">>)}
                => cConfig.Port = Port3333
         /\ cEnv["PORT"] = SetTo(<<"8", "0", "8", "0">>)
                => cConfig.Port = IntOf(FALSE, <<"8", "0", "8", "0">>)
         /\ cEnv["PORT"] = SetTo(<<"-", "1">>) => cConfig.Port = IntOf(TRUE, <<"1">>)
         /\ cConfig.OutputDir =
                IF cEnv["OUTPUT_DIR"] \in {Unset, SetTo(<<>>)}
                THEN <<"/", "o", "u", "t", "p", "u", "t">>
                ELSE cEnv["OUTPUT_DIR"].val
         /\ cConfig.Debug <=> cEnv["DEBUG"] = SetTo(<<"t", "r", "u", "e">>)
         /\ cConfig.APIHost = cEnv["API_HOST"].val
         /\ cConfig.APIKey = cEnv["API_KEY"].val

\* loadConfig has read PORT=0080, DEBUG=TRUE and an empty OUTPUT_DIR.
C27_Witness ==
    /\ cDone
    /\ cEnv["PORT"] = SetTo(<<"0", "0", "8", "0">>)
    /\ cEnv["DEBUG"] = SetTo(<<"T", "R", "U", "E">>)
    /\ cEnv["OUTPUT_DIR"] = SetTo(<<>>)
    /\ cEnv["API_KEY"] = Unset
    /\ cConfig.Port = IntOf(FALSE, <<"8", "0">>)
    /\ ~cConfig.Debug
    /\ cConfig.OutputDir = <<"/", "o", "u", "t", "p", "u", "t">>
    /\ cConfig.APIKey = <<>>

PairWrite(s) ==
    IF req[s].source = "jellyfin" THEN jellyfinHandle(req[s], "ok", "ok")
    ELSE IF media[s] # <<>> THEN plexRecordStep(media[s][1], "ok", "ok")
    ELSE [what |-> "none", path |-> <<>>, text |-> MarshalIndent(ZeroMediaData)]

\* The request in slot s is over and has written its descriptor.
WroteDescriptor(s) == Done(s) /\ Wrote(PairWrite(s)) /\ Len(written[s]) = 1

\* The request in slot a was answered before the one in slot b arrived.
InSequence(a, b) ==
    \E i, j \in 1..Len(trace) :
        i < j /\ trace[i] = Ev(a, "resp") /\ trace[j] = Ev(b, "recv")

\* The files that were there when the relay started.
OldPaths == UNION {DOMAIN fs : fs \in InitialFiles}

\* C23: writing a descriptor for the same title, season and episode twice
\* in sequence overwrites the file.  When a request that wrote a descriptor
\* was answered before a second one arrived that wrote to the same path,
\* then, the second being over, the file holds the whole descriptor of the
\* second request and nothing else, as it would after the second request
\* alone, and there is no file but this one and those that were there at
\* the start.
C23_SecondWriteOverwrites ==
    \A a, b \in Slots :
        (/\ WroteDescriptor(a) /\ WroteDescriptor(b)
         /\ InSequence(a, b)
         /\ PairWrite(a).path = PairWrite(b).path) =>
            /\ files[PairWrite(b).path] = File(PairWrite(b).text, TRUE)
            /\ DOMAIN files \subseteq OldPaths \cup {PairWrite(b).path}

\* An episode of "Show" was written with the longer title, and after it
\* was answered the same episode came with the shorter title, over a file
\* that was there at the start.
C23_Witness ==
    /\ WroteDescriptor(1) /\ WroteDescriptor(2)
    /\ InSequence(1, 2)
    /\ req[1].source = "jellyfin" /\ req[2].source = "jellyfin"
    /\ req[1].jf.Title = "The Long Goodbye" /\ req[2].jf.Title = "Pilot"
    /\ req[1].jf.EpisodeNumber = 2 /\ req[2].jf.EpisodeNumber = 2
    /\ PairWrite(1).path = PairWrite(2).path
    /\ PairWrite(1).path \in OldPaths
    /\ files[PairWrite(2).path] = File(PairWrite(2).text, TRUE)
    /\ files[PairWrite(2).path].text.full_title = "Show - Pilot"

\* C24: two requests handled at the same time both write their descriptor.
\* If they write to the same path, the file holds the whole descriptor of
\* one of the two, never a mixture; if they write to different paths, each
\* file holds the whole descriptor of its request.
C24_LastWriteWins ==
    (WroteDescriptor(1) /\ WroteDescriptor(2)) =>
        IF PairWrite(1).path = PairWrite(2).path
        THEN files[PairWrite(1).path] \in {File(PairWrite(1).text, TRUE),
                                           File(PairWrite(2).text, TRUE)}
        ELSE /\ files[PairWrite(1).path] = File(PairWrite(1).text, TRUE)
             /\ files[PairWrite(2).path] = File(PairWrite(2).text, TRUE)

====
